---- MODULE Spec2Model ----
(***************************************************************************)
(* Options pricing and risk engine: closed-form valuation, analytical      *)
(* Greeks, implied-volatility solver and position/portfolio aggregation.   *)
(*                                                                         *)
(* Representation.  The program computes in IEEE doubles.  Here a real     *)
(* number x is the integer round(x * SCALE), SCALE = 10^6 (one unit is     *)
(* 1e-6).  Products and quotients are rounded to the nearest unit, so      *)
(* every formula below is the source formula evaluated to about six        *)
(* decimals.  TLC integers are 32 bit, hence magnitudes saturate at 2000   *)
(* and MulFix/DivFix work on base-1000 limbs / decimal long division.     *)
(* Dates are day numbers; (expiry - today).days is their difference.       *)
(*                                                                         *)
(* The implied-volatility solver compares prices with tol = 1e-6 and       *)
(* divides by vegas down to 1e-8, so six decimals are not enough for it:   *)
(* its numbers (observed price, guess, tolerance, sigma, the bracket, the  *)
(* value returned) and the prices and vegas it evaluates are decimal       *)
(* floating-point numbers of 13 to 16 significant digits with no           *)
(* saturation (see "Doubles of the implied-volatility solver").            *)
(*                                                                         *)
(* The Monte Carlo mean and the two CVaRs are compared with values they    *)
(* can equal up to the last bit, so np.mean is computed on binary doubles  *)
(* bit for bit: the simulated values, carried to six decimals, are taken   *)
(* to the nearest double, summed from left to right and divided by their   *)
(* count, each step rounded to nearest, ties to even (see "IEEE doubles,   *)
(* bit for bit").                                                          *)
(***************************************************************************)
EXTENDS Integers, Sequences, FiniteSets, TLC

\* ------------------------------------------------------------------------
\* Fixed-point arithmetic (the float operations of the source)
\* ------------------------------------------------------------------------
BASE == 10 ^ 3
SCALE == BASE * BASE

Abs(x) == IF x < 0 THEN -x ELSE x
Sgn(x) == IF x < 0 THEN -1 ELSE 1
Max(a, b) == IF a >= b THEN a ELSE b
Min(a, b) == IF a <= b THEN a ELSE b

\* float(n) for an integer n
Fix(n) == n * SCALE

\* The primitives are functions on Int, so that an argument is evaluated
\* once, when the function is applied.

\* largest magnitude represented; a larger double is kept at this value
Huge == 2000 * SCALE

\* a * b on floats: round(|a|*|b| / SCALE) with the sign of the product
MulFixF[a \in Int, b \in Int] ==
    LET x == Abs(a)
        y == Abs(b)
        a1 == x \div BASE
        a0 == x % BASE
        b1 == y \div BASE
        b0 == y % BASE
        t1 == a1 * b0
        t2 == a0 * b1
        lowpart == ((t1 % BASE) + (t2 % BASE)) * BASE + a0 * b0 + (SCALE \div 2)
        m == a1 * b1 + (t1 \div BASE) + (t2 \div BASE) + (lowpart \div SCALE)
    IN  IF a1 > 0 /\ b1 >= Huge \div a1
        THEN Sgn(a) * Sgn(b) * Huge
        ELSE Sgn(a) * Sgn(b) * m

MulFix(a, b) == MulFixF[a, b]

\* n more decimal digits of r / b (0 <= r < b), the last one rounded
DivDigits[r \in Int, b \in Int, n \in Nat] ==
    IF n = 0
    THEN (IF 2 * r >= b THEN 1 ELSE 0)
    ELSE ((r * 10) \div b) * (10 ^ (n - 1)) + DivDigits[(r * 10) % b, b, n - 1]

\* a / b on floats (b # 0): round(|a| * SCALE / |b|) with the sign of the
\* quotient; a divisor above 200 is first shortened by one decimal digit
DivFixF[a \in Int, b \in Int] ==
    LET big == Abs(b) > 200 * SCALE
        x == IF big THEN (Abs(a) + 5) \div 10 ELSE Abs(a)
        y == IF big THEN (Abs(b) + 5) \div 10 ELSE Abs(b)
    IN  Sgn(a) * Sgn(b) * ((x \div y) * SCALE + DivDigits[x % y, y, 6])

DivFix(a, b) == DivFixF[a, b]

\* a / n on floats for a whole number n > 0
DivInt(a, n) == DivFixF[a, Fix(n)]

\* math.sqrt(x), x >= 0: Newton iteration from above until it stops decreasing
SqrtIter[x \in Int, y \in Int] ==
    LET y2 == (y + DivFixF[x, y]) \div 2
    IN  IF y2 >= y THEN y ELSE SqrtIter[x, y2]

SqrtFix(x) == IF x <= 0 THEN 0 ELSE SqrtIter[x, Max(x, SCALE)]

LN2 == 693147
ExpFloor == -20 * SCALE

\* exp(f) for 0 <= f < ln 2: Taylor polynomial of degree 11 in Horner form
ExpHorner[f \in Int, k \in Nat, acc \in Int] ==
    IF k = 0 THEN acc
    ELSE ExpHorner[f, k - 1, SCALE + MulFixF[f, acc] \div k]

\* math.exp(x): x = n ln 2 + f, exp(x) = 2^n exp(f); below 1e-6 it is 0 here
ExpFixF[x \in Int] ==
    IF x <= ExpFloor THEN 0
    ELSE LET n == x \div LN2
             f == x - n * LN2
             e == ExpHorner[f, 11, SCALE]
         IN  IF n >= 0 THEN e * (2 ^ n)
             ELSE (e + 2 ^ (-n - 1)) \div (2 ^ (-n))

ExpFix(x) == ExpFixF[x]

\* the odd powers z, z^3, ..., z^9 summed as 2 (z + z^3/3 + ... + z^9/9)
AtanhSeries[z \in Int, z2 \in Int, pw \in Int, k \in Nat] ==
    IF k > 9 THEN 0
    ELSE (2 * pw) \div k + AtanhSeries[z, z2, MulFixF[pw, z2], k + 2]

\* ln(m) for m in [1/sqrt 2, sqrt 2): 2 atanh((m-1)/(m+1)), five terms
LnCore[m \in Int] ==
    LET z == DivFixF[m - SCALE, m + SCALE]
    IN  AtanhSeries[z, MulFixF[z, z], z, 1]

SQRT2 == 1414214
SQRT1_2 == 707107

\* math.log(y), y > 0: halve or double into [1/sqrt 2, sqrt 2)
LnFixF[y \in Int] ==
    IF y >= SQRT2 THEN LN2 + LnFixF[(y + 1) \div 2]
    ELSE IF y < SQRT1_2 THEN LnFixF[2 * y] - LN2
    ELSE LnCore[y]

LnFix(y) == LnFixF[y]

INV_SQRT_2PI == 398942
\* |x| beyond which pdf(x) < 1e-6 and cdf(x) is 0 or 1 to six decimals
XCap == 40 * SCALE

\* scipy.stats.norm.pdf(x) = exp(-x^2/2) / sqrt(2 pi)
NormPdfF[x \in Int] ==
    IF Abs(x) >= XCap THEN 0
    ELSE MulFixF[INV_SQRT_2PI, ExpFixF[-(MulFixF[x, x] \div 2)]]

NormPdf(x) == NormPdfF[x]

\* b1 t + b2 t^2 + ... + b5 t^5 of Abramowitz-Stegun 26.2.17
CdfPoly[t \in Int] ==
    MulFixF[t, 319382 + MulFixF[t, -356564 + MulFixF[t, 1781478
            + MulFixF[t, -1821256 + MulFixF[t, 1330274]]]]]

\* 1 - cdf(x) for x >= 0
CdfUpper[x \in Int] ==
    MulFixF[NormPdfF[x], CdfPoly[DivFixF[SCALE, SCALE + MulFixF[231642, x]]]]

\* scipy.stats.norm.cdf(x), to six decimals; cdf(-x) = 1 - cdf(x)
NormCdfF[x \in Int] ==
    IF x >= XCap THEN SCALE
    ELSE IF x <= -XCap THEN 0
    ELSE IF x >= 0 THEN SCALE - CdfUpper[x]
    ELSE CdfUpper[-x]

NormCdf(x) == NormCdfF[x]

\* a / b on floats where the double may exceed the range of this
\* representation: the quotient saturates at +-cap (cap a whole number)
DivSatF[a \in Int, b \in Int, cap \in Nat] ==
    IF b = 0 THEN (IF a = 0 THEN 0 ELSE Sgn(a) * Fix(cap))
    ELSE IF Abs(a) \div cap >= Abs(b) THEN Sgn(a) * Sgn(b) * Fix(cap)
    ELSE DivFixF[a, b]

DivSat(a, b, cap) == DivSatF[a, b, cap]

\* ------------------------------------------------------------------------
\* Doubles of the implied-volatility solver
\*
\* The solver compares prices with tol = 1e-6, divides by vegas down to 1e-8
\* and lets sigma leave every fixed range, so its numbers are floats: a
\* double is the tuple <<s, e, a, b, c, d>> of value
\*     s * (a + b/10^4 + c/10^8 + d/10^12) * 10^(4e),
\* s in {-1, 0, 1} and 1 <= a < 10^4 unless the number is 0, that is 13 to
\* 16 significant decimal digits (a double has 15.95).  Every operation is
\* rounded to that precision.
\* ------------------------------------------------------------------------
ZeroD == <<0, 0, 0, 0, 0, 0>>
OneD == <<1, 0, 1, 0, 0, 0>>
TwoD == <<1, 0, 2, 0, 0, 0>>
HalfD == <<1, -1, 5000, 0, 0, 0>>

\* the rounded number: the fifth limb g is dropped, half a unit rounds up
RoundD[s, e, a, b, c, d, g \in Int] ==
    IF g < 5000 THEN <<s, e, a, b, c, d>>
    ELSE IF d < 9999 THEN <<s, e, a, b, c, d + 1>>
    ELSE IF c < 9999 THEN <<s, e, a, b, c + 1, 0>>
    ELSE IF b < 9999 THEN <<s, e, a, b + 1, 0, 0>>
    ELSE IF a < 9999 THEN <<s, e, a + 1, 0, 0, 0>>
    ELSE <<s, e + 1, 1, 0, 0, 0>>

\* the number s * (l0 + l1/10^4 + ... + l4/10^16) * 10^(4e) for limbs of any
\* size and sign whose sum is not negative: carries move up, the leading
\* limb is brought into 1..9999
NormD[s, e, l0, l1, l2, l3, l4 \in Int] ==
    LET t3 == l3 + l4 \div 10000
        t2 == l2 + t3 \div 10000
        t1 == l1 + t2 \div 10000
        t0 == l0 + t1 \div 10000
    IN  IF t0 >= 10000
        THEN NormD[s, e + 1, 0, t0, t1 % 10000, t2 % 10000, t3 % 10000]
        ELSE IF t0 > 0
        THEN RoundD[s, e, t0, t1 % 10000, t2 % 10000, t3 % 10000, l4 % 10000]
        ELSE IF t1 % 10000 = 0 /\ t2 % 10000 = 0 /\ t3 % 10000 = 0 /\ l4 % 10000 = 0
        THEN ZeroD
        ELSE NormD[s, e - 1, t1 % 10000, t2 % 10000, t3 % 10000, l4 % 10000, 0]

\* float(n) for a number n of the six-decimal representation: n * 10^-6
FromFix[n \in Int] ==
    NormD[Sgn(n), 0, Abs(n) \div SCALE, ((Abs(n) % SCALE) * 100) \div 10000, ((Abs(n) % SCALE) * 100) % 10000, 0, 0]

\* float(n) for a whole number n
FromInt[n \in Int] == NormD[Sgn(n), 0, Abs(n), 0, 0, 0, 0]

\* the six-decimal number nearest below |x|, with the sign of x, for
\* |x| < 2000; a larger magnitude gives Huge
ToFix[x \in Seq(Int)] ==
    IF x[1] = 0 \/ x[2] < -2 THEN 0
    ELSE IF x[2] = -2 THEN x[1] * (x[3] \div 100)
    ELSE IF x[2] = -1 THEN x[1] * (x[3] * 100 + x[4] \div 100)
    ELSE IF x[2] = 0 /\ x[3] < 2000 THEN x[1] * (x[3] * SCALE + x[4] * 100 + x[5] \div 100)
    ELSE x[1] * Huge

\* -x
NegD[x \in Seq(Int)] == <<-x[1], x[2], x[3], x[4], x[5], x[6]>>

\* abs(x)
AbsD[x \in Seq(Int)] == <<Abs(x[1]), x[2], x[3], x[4], x[5], x[6]>>

\* x * y
MulD[x \in Seq(Int), y \in Seq(Int)] ==
    IF x[1] = 0 \/ y[1] = 0 THEN ZeroD
    ELSE NormD[x[1] * y[1], x[2] + y[2],
               x[3] * y[3],
               x[3] * y[4] + x[4] * y[3],
               x[3] * y[5] + x[4] * y[4] + x[5] * y[3],
               x[3] * y[6] + x[4] * y[5] + x[5] * y[4] + x[6] * y[3],
               x[4] * y[6] + x[5] * y[5] + x[6] * y[4]
                 + (x[5] * y[6] + x[6] * y[5] + (x[6] * y[6]) \div 10000) \div 10000]

\* x * n for a whole number n, |n| <= 100000
MulSmall[x \in Seq(Int), n \in Int] ==
    IF x[1] = 0 \/ n = 0 THEN ZeroD
    ELSE NormD[x[1] * Sgn(n), x[2], x[3] * Abs(n), x[4] * Abs(n), x[5] * Abs(n), x[6] * Abs(n), 0]

\* the limbs of x / n after the first one, r the remainder carried down
DivLimbs[r, n, l1, l2, l3 \in Int] ==
    LET q1 == r * 10000 + l1
        q2 == (q1 % n) * 10000 + l2
        q3 == (q2 % n) * 10000 + l3
        q4 == (q3 % n) * 10000
        q5 == (q4 % n) * 10000
    IN  <<q1 \div n, q2 \div n, q3 \div n, q4 \div n, q5 \div n>>

\* x / n for a whole number n, 0 < n <= 100000
DivSmallQ[s, e, a, n \in Int, q \in Seq(Int)] ==
    IF a \div n > 0 THEN NormD[s, e, a \div n, q[1], q[2], q[3], q[4]]
    ELSE NormD[s, e - 1, q[1], q[2], q[3], q[4], q[5]]

DivSmall[x \in Seq(Int), n \in Int] ==
    IF x[1] = 0 THEN ZeroD
    ELSE DivSmallQ[x[1], x[2], x[3], n, DivLimbs[x[3] % n, n, x[4], x[5], x[6]]]

\* the five limbs of |y| at an exponent k above its own
Shifted[y \in Seq(Int), k \in Int] ==
    IF k = 0 THEN <<y[3], y[4], y[5], y[6], 0>>
    ELSE IF k = 1 THEN <<0, y[3], y[4], y[5], y[6]>>
    ELSE IF k = 2 THEN <<0, 0, y[3], y[4], y[5]>>
    ELSE IF k = 3 THEN <<0, 0, 0, y[3], y[4]>>
    ELSE IF k = 4 THEN <<0, 0, 0, 0, y[3]>>
    ELSE <<0, 0, 0, 0, 0>>

\* the sign of the first limb that is not 0
LimbSign[r0, r1, r2, r3, r4 \in Int] ==
    IF r0 # 0 THEN Sgn(r0) ELSE IF r1 # 0 THEN Sgn(r1) ELSE IF r2 # 0 THEN Sgn(r2)
    ELSE IF r3 # 0 THEN Sgn(r3) ELSE IF r4 # 0 THEN Sgn(r4) ELSE 0

\* s * (r0 + r1/10^4 + ...) * 10^(4e) for a difference of limbs, of any sign
SignedD[s, e, r0, r1, r2, r3, r4, g \in Int] ==
    IF g = 0 THEN ZeroD ELSE NormD[s * g, e, g * r0, g * r1, g * r2, g * r3, g * r4]

\* x + y for |x| at the exponent of x and the limbs q of |y| at that exponent
AddAligned[x \in Seq(Int), sy \in Int, q \in Seq(Int)] ==
    IF x[1] = sy
    THEN NormD[x[1], x[2], x[3] + q[1], x[4] + q[2], x[5] + q[3], x[6] + q[4], q[5]]
    ELSE SignedD[x[1], x[2], x[3] - q[1], x[4] - q[2], x[5] - q[3], x[6] - q[4], -q[5],
                 LimbSign[x[3] - q[1], x[4] - q[2], x[5] - q[3], x[6] - q[4], -q[5]]]

\* x + y
AddD[x \in Seq(Int), y \in Seq(Int)] ==
    IF x[1] = 0 THEN y
    ELSE IF y[1] = 0 THEN x
    ELSE IF x[2] >= y[2] THEN AddAligned[x, y[1], Shifted[y, x[2] - y[2]]]
    ELSE AddAligned[y, x[1], Shifted[x, y[2] - x[2]]]

\* x - y
SubD[x \in Seq(Int), y \in Seq(Int)] == AddD[x, NegD[y]]

\* x < y, x <= y
LtD(x, y) == SubD[x, y][1] < 0
LeD(x, y) == SubD[x, y][1] <= 0

\* max(x, y), min(x, y)
MaxD[x \in Seq(Int), y \in Seq(Int)] == IF LtD(x, y) THEN y ELSE x

\* the eight leading digits of the limbs a, b, c (a >= 1)
Lead8[a, b, c \in Int] ==
    IF a >= 1000 THEN a * 10000 + b
    ELSE IF a >= 100 THEN a * 100000 + b * 10 + c \div 1000
    ELSE IF a >= 10 THEN a * 1000000 + b * 100 + c \div 100
    ELSE a * 10000000 + b * 1000 + c \div 10

\* 10^(j+1) for a leading limb of 4 - j digits
LeadScale[a \in Int] ==
    IF a >= 1000 THEN 10 ELSE IF a >= 100 THEN 100 ELSE IF a >= 10 THEN 1000 ELSE 10000

\* 1 / y to eight digits, from the integer quotient q = 10^15 / Lead8
RecipSeed[s, e, a, q \in Int] ==
    NormD[s, -e - 2, (q \div 10000) * LeadScale[a], (q % 10000) * LeadScale[a], 0, 0, 0]

\* one Newton step r (2 - y r) towards 1 / y
RecipStep[y \in Seq(Int), r \in Seq(Int)] == MulD[r, SubD[TwoD, MulD[y, r]]]

\* 1 / y, y # 0
RecipD[y \in Seq(Int)] ==
    RecipStep[y, RecipStep[y, RecipSeed[y[1], y[2], y[3], DivFixF[BASE * SCALE, Lead8[y[3], y[4], y[5]]]]]]

\* x / y, y # 0
DivD[x \in Seq(Int), y \in Seq(Int)] ==
    IF x[1] = 0 THEN ZeroD ELSE MulD[x, RecipD[y]]

\* one Heron step (y + x / y) / 2 towards sqrt(x), as y + (x / y - y) / 2
SqrtStep[x \in Seq(Int), y \in Seq(Int)] == AddD[y, DivSmall[SubD[DivD[x, y], y], 2]]

\* a first root of x in [1e-4, 1e4), from the six-decimal root of x, of
\* 100 x below 0.01 and of x / 100 from 2000 on
SqrtSeed[x \in Seq(Int)] ==
    IF x[2] = 0 /\ x[3] >= 2000 THEN MulSmall[FromFix[SqrtFix(ToFix[DivSmall[x, 100]])], 10]
    ELSE IF x[2] = -1 /\ x[3] < 100 THEN DivSmall[FromFix[SqrtFix(ToFix[MulSmall[x, 100]])], 10]
    ELSE FromFix[SqrtFix(ToFix[x])]

\* x * 10^(4k)
ScaleD[x \in Seq(Int), k \in Int] == <<x[1], x[2] + k, x[3], x[4], x[5], x[6]>>

\* the root of x in [1e-4, 1e4): two Heron steps from the first root
SqrtCore[x \in Seq(Int)] == SqrtStep[x, SqrtStep[x, SqrtSeed[x]]]

\* math.sqrt(x): sqrt(x) = sqrt(x / 10^(8k)) * 10^(4k), with k so that the
\* first factor is in [1e-4, 1e4)
SqrtD[x \in Seq(Int)] ==
    IF x[1] <= 0 THEN ZeroD
    ELSE ScaleD[SqrtCore[ScaleD[x, -2 * ((x[2] + 1) \div 2)]], (x[2] + 1) \div 2]

LN2D == <<1, -1, 6931, 4718, 559, 9453>>
\* ln 2 = 0.6931 + 0.00004718055994530942: n * 0.6931 is exact
LN2HiD == <<1, -1, 6931, 0, 0, 0>>
LN2LoD == <<1, -2, 4718, 559, 9453, 942>>
\* below it math.exp gives 0.0
ExpUnderflow == <<-1, 0, 745, 1332, 1910, 1940>>

\* x * x
SqD[x \in Seq(Int)] == MulD[x, x]

\* 2^n
Pow2D[n \in Int] ==
    IF n = 0 THEN OneD
    ELSE IF n % 2 = 0 THEN SqD[Pow2D[n \div 2]]
    ELSE IF n < 0 THEN DivSmall[Pow2D[n + 1], 2]
    ELSE MulSmall[Pow2D[n - 1], 2]

\* exp(f) for |f| <= ln(2) / 2: Taylor polynomial of degree 13 in Horner form
ExpHornerD[f \in Seq(Int), k \in Nat, acc \in Seq(Int)] ==
    IF k = 0 THEN acc
    ELSE ExpHornerD[f, k - 1, AddD[OneD, DivSmall[MulD[f, acc], k]]]

\* exp(x) = 2^n exp(x - n ln 2)
ExpReduced[x \in Seq(Int), n \in Int] ==
    IF n = 0 THEN ExpHornerD[x, 13, OneD]
    ELSE MulD[Pow2D[n], ExpHornerD[SubD[SubD[x, MulSmall[LN2HiD, n]], MulSmall[LN2LoD, n]], 13, OneD]]

\* math.exp(x) for x < 709
ExpD[x \in Seq(Int)] ==
    IF x[1] = 0 THEN OneD
    ELSE IF LtD(x, ExpUnderflow) THEN ZeroD
    ELSE ExpReduced[x, (ToFix[x] + LN2 \div 2) \div LN2]

SQRT2D == <<1, 0, 1, 4142, 1356, 2373>>
\* 0.7, below sqrt 2 / 2: a number halved from sqrt 2 or above stays above
\* it, and a number doubled from below it stays below sqrt 2
LnLowD == <<1, -1, 7000, 0, 0, 0>>

\* 1/k + z2 (1/(k+2) + z2 (... 1/21)): the odd powers of the atanh series
AtanhHorner[z2 \in Seq(Int), k \in Nat] ==
    IF k >= 21 THEN DivSmall[OneD, 21]
    ELSE AddD[DivSmall[OneD, k], MulD[z2, AtanhHorner[z2, k + 2]]]

\* 2 z (1 + z^2/3 + z^4/5 + ...)
AtanhTwice[z \in Seq(Int)] == MulSmall[MulD[z, AtanhHorner[SqD[z], 1]], 2]

\* math.log(y), y > 0: halve or double into [0.7, sqrt 2), then
\* ln(m) = 2 atanh((m - 1) / (m + 1)); for y <= 0 math.log raises, and the
\* callers test the domain before they come here
LnD[y \in Seq(Int)] ==
    IF ~LtD(y, SQRT2D) THEN AddD[LN2D, LnD[DivSmall[y, 2]]]
    ELSE IF LtD(y, LnLowD) THEN SubD[LnD[MulSmall[y, 2]], LN2D]
    ELSE AtanhTwice[DivD[SubD[y, OneD], AddD[y, OneD]]]

INV_SQRT_2PI_D == <<1, -1, 3989, 4228, 401, 4327>>

\* scipy.stats.norm.pdf(x) = exp(-x^2/2) / sqrt(2 pi)
NormPdfD[x \in Seq(Int)] == MulD[INV_SQRT_2PI_D, ExpD[NegD[DivSmall[SqD[x], 2]]]]

\* x + x^3/3 + x^5/(3 5) + ...: the terms are added until they no longer
\* change the sum
CdfSeries[x2 \in Seq(Int), term \in Seq(Int), sum \in Seq(Int), k \in Nat] ==
    IF term[1] = 0 \/ term[2] < sum[2] - 4 THEN sum
    ELSE CdfSeries[x2, DivSmall[MulD[term, x2], k], AddD[sum, term], k + 2]

\* 1 - w (1 - 3 w (1 - 5 w (... (1 - 17 w)))), w = 1/x^2: the asymptotic
\* expansion of the upper tail
TailHorner[w \in Seq(Int), k \in Nat] ==
    IF k > 17 THEN OneD
    ELSE SubD[OneD, MulSmall[MulD[w, TailHorner[w, k + 2]], k]]

\* 1 - cdf(x) for 0 <= x < 38.5 and p = pdf(x): from 6 on p / x times the
\* expansion, below 6 a half less p times the series
TailFromPdf[x \in Seq(Int), p \in Seq(Int)] ==
    IF x[2] = 0 /\ x[3] >= 6 THEN MulD[DivD[p, x], TailHorner[RecipD[SqD[x]], 1]]
    ELSE SubD[HalfD, MulD[p, CdfSeries[SqD[x], x, ZeroD, 3]]]

\* 1 - cdf(x) for x >= 0: 0 from 38.5 on, as in doubles
UpperTailD[x \in Seq(Int)] ==
    IF x[2] > 0 \/ (x[2] = 0 /\ x[3] >= 39) THEN ZeroD
    ELSE TailFromPdf[x, NormPdfD[x]]

\* cdf(x) from the sign of x and t = 1 - cdf(|x|)
CdfBySign[s \in Int, t \in Seq(Int)] == IF s >= 0 THEN SubD[OneD, t] ELSE t

\* scipy.stats.norm.cdf(x)
NormCdfD[x \in Seq(Int)] == CdfBySign[x[1], UpperTailD[AbsD[x]]]

\* ------------------------------------------------------------------------
\* Data model
\* ------------------------------------------------------------------------
DaysPerYear == 365

\* OptionContract(symbol, option_type, style, strike, expiry, quantity)
OptionContract(option_type, strike, expiry, quantity) ==
    [symbol |-> "AAPL", option_type |-> option_type, style |-> "european",
     strike |-> strike, expiry |-> expiry, quantity |-> quantity]

\* MarketSnapshot(spot, rate, dividend_yield, volatility, timestamp)
MarketSnapshot(spot, rate, dividend_yield, volatility, timestamp) ==
    [spot |-> spot, rate |-> rate, dividend_yield |-> dividend_yield,
     volatility |-> volatility, timestamp |-> timestamp]

\* Position(contract, quantity)
Position(contract, quantity) == [contract |-> contract, quantity |-> quantity]

\* T = (option.expiry - today).days / 365.0
YearFrac(option, today) == DivFix(option.expiry - today, DaysPerYear)

\* ------------------------------------------------------------------------
\* Valuation model
\* ------------------------------------------------------------------------
d1_of[S, K, r, q, sigma, T, sqrt_T \in Int] ==
    DivSat(LnFix(DivFix(S, K))
             + MulFix(r - q + MulFix(SCALE \div 2, MulFix(sigma, sigma)), T),
           MulFix(sigma, sqrt_T), 2000)

\* d2 = d1 - sigma * sqrt_T
d2_of[sigma \in Int, sqrt_T \in Int, d1 \in Int] == d1 - MulFix(sigma, sqrt_T)

\* if T <= 0: intrinsic value
PriceIntrinsic(option, market) ==
    IF option.option_type = "call"
    THEN Max(market.spot - option.strike, 0)
    ELSE Max(option.strike - market.spot, 0)

\* mutant: the put leg takes max(forward, 0) like the call leg
PriceZeroVol_PutSign(option, market, T) ==
    LET forward == MulFix(market.spot, ExpFix(-MulFix(market.dividend_yield, T)))
                     - MulFix(option.strike, ExpFix(-MulFix(market.rate, T)))
    IN  Max(forward, 0)

\* if sigma <= 0: discounted forward intrinsic value
PriceZeroVol(option, market, T) ==
    LET forward == MulFix(market.spot, ExpFix(-MulFix(market.dividend_yield, T)))
                     - MulFix(option.strike, ExpFix(-MulFix(market.rate, T)))
    IN  IF option.option_type = "call" THEN Max(forward, 0) ELSE Max(-forward, 0)

\* the call and put formulas, from the discount factors and d1, d2
ClosedFormValue[is_call \in BOOLEAN, S, K, disc_q, disc_r, d1, d2 \in Int] ==
    IF is_call
    THEN MulFix(MulFix(S, disc_q), NormCdf(d1)) - MulFix(MulFix(K, disc_r), NormCdf(d2))
    ELSE MulFix(MulFix(K, disc_r), NormCdf(-d2)) - MulFix(MulFix(S, disc_q), NormCdf(-d1))

\* the closed form once sqrt_T and d1 have been computed
PriceFromD1[is_call \in BOOLEAN, S, K, r, q, sigma, T, sqrt_T, d1 \in Int] ==
    ClosedFormValue[is_call, S, K, ExpFix(-MulFix(q, T)), ExpFix(-MulFix(r, T)),
                    d1, d2_of[sigma, sqrt_T, d1]]

\* the closed form once sqrt_T has been computed
PriceFromSqrtT[is_call \in BOOLEAN, S, K, r, q, sigma, T, sqrt_T \in Int] ==
    PriceFromD1[is_call, S, K, r, q, sigma, T, sqrt_T,
                d1_of[S, K, r, q, sigma, T, sqrt_T]]

\* closed-form Black-Scholes value with continuous dividend yield
PriceClosedForm(option, market, T) ==
    PriceFromSqrtT[option.option_type = "call", market.spot, option.strike, market.rate,
                   market.dividend_yield, market.volatility, T, SqrtFix(T)]

\* mutant: the zero-volatility guard is tested before the expiry guard
price_VolGuardFirst(option, market, today) ==
    LET T == YearFrac(option, today)
    IN  IF market.volatility <= 0 THEN PriceZeroVol(option, market, T)
        ELSE IF T <= 0 THEN PriceIntrinsic(option, market)
        ELSE PriceClosedForm(option, market, T)

price(option, market, today) ==
    LET T == YearFrac(option, today)
    IN  IF T <= 0 THEN PriceIntrinsic(option, market)
        ELSE IF market.volatility <= 0 THEN PriceZeroVol(option, market, T)
        ELSE PriceClosedForm(option, market, T)

\* ------------------------------------------------------------------------
\* Greeks engine
\* ------------------------------------------------------------------------
\* mutant: no tie-break at spot == strike (the boundary counts as out of the money)
GreeksExpired_NoTie(option, market) ==
    LET S == market.spot
        K == option.strike
    IN  IF option.option_type = "call"
        THEN [price_intrinsic |-> Max(S - K, 0),
              delta |-> IF S > K THEN SCALE ELSE 0,
              gamma |-> 0, vega |-> 0, theta |-> 0, rho |-> 0]
        ELSE [price_intrinsic |-> Max(K - S, 0),
              delta |-> IF S < K THEN -SCALE ELSE 0,
              gamma |-> 0, vega |-> 0, theta |-> 0, rho |-> 0]

GreeksExpired(option, market) ==
    LET S == market.spot
        K == option.strike
    IN  IF option.option_type = "call"
        THEN [price_intrinsic |-> Max(S - K, 0),
              delta |-> IF S > K THEN SCALE ELSE (IF S < K THEN 0 ELSE SCALE \div 2),
              gamma |-> 0, vega |-> 0, theta |-> 0, rho |-> 0]
        ELSE [price_intrinsic |-> Max(K - S, 0),
              delta |-> IF S < K THEN -SCALE ELSE (IF S > K THEN 0 ELSE -(SCALE \div 2)),
              gamma |-> 0, vega |-> 0, theta |-> 0, rho |-> 0]

\* mutant: delta without the half weight at forward == 0
GreeksZeroVol_NoTie(option, market, T) ==
    LET S == market.spot
        K == option.strike
        r == market.rate
        q == market.dividend_yield
        disc_q == ExpFix(-MulFix(q, T))
        disc_r == ExpFix(-MulFix(r, T))
        forward == MulFix(S, disc_q) - MulFix(K, disc_r)
    IN  IF option.option_type = "call"
        THEN [delta |-> IF forward > 0 THEN disc_q ELSE 0,
              gamma |-> 0, vega |-> 0, theta |-> 0,
              rho |-> IF forward > 0 THEN MulFix(MulFix(T, K), disc_r) ELSE 0]
        ELSE [delta |-> IF forward < 0 THEN -disc_q ELSE 0,
              gamma |-> 0, vega |-> 0, theta |-> 0,
              rho |-> IF forward < 0 THEN -MulFix(MulFix(T, K), disc_r) ELSE 0]

GreeksZeroVol(option, market, T) ==
    LET S == market.spot
        K == option.strike
        r == market.rate
        q == market.dividend_yield
        disc_q == ExpFix(-MulFix(q, T))
        disc_r == ExpFix(-MulFix(r, T))
        forward == MulFix(S, disc_q) - MulFix(K, disc_r)
    IN  IF option.option_type = "call"
        THEN [delta |-> IF forward > 0 THEN disc_q
                        ELSE (IF forward < 0 THEN 0 ELSE MulFix(SCALE \div 2, disc_q)),
              gamma |-> 0, vega |-> 0, theta |-> 0,
              rho |-> IF forward > 0 THEN MulFix(MulFix(T, K), disc_r) ELSE 0]
        ELSE [delta |-> IF forward < 0 THEN -disc_q
                        ELSE (IF forward > 0 THEN 0 ELSE -MulFix(SCALE \div 2, disc_q)),
              gamma |-> 0, vega |-> 0, theta |-> 0,
              rho |-> IF forward < 0 THEN -MulFix(MulFix(T, K), disc_r) ELSE 0]

\* gamma = disc_q * pdf_d1 / (S * sigma * sqrt_T)
gamma_of[S \in Int, sigma \in Int, sqrt_T \in Int, disc_q \in Int, pdf_d1 \in Int] ==
    DivSat(MulFix(disc_q, pdf_d1), MulFix(S, MulFix(sigma, sqrt_T)), 2000)

\* vega = S * disc_q * pdf_d1 * sqrt_T
vega_of[S \in Int, sqrt_T \in Int, disc_q \in Int, pdf_d1 \in Int] ==
    MulFix(MulFix(MulFix(S, disc_q), pdf_d1), sqrt_T)

\* the time-decay term S * disc_q * pdf_d1 * sigma / (2 * sqrt_T) of theta
decay_of[S \in Int, sigma \in Int, sqrt_T \in Int, disc_q \in Int, pdf_d1 \in Int] ==
    DivSat(MulFix(MulFix(MulFix(S, disc_q), pdf_d1), sigma), 2 * sqrt_T, 2000)

\* theta per year, call and put
theta_of[is_call \in BOOLEAN, S, K, r, q, disc_q, disc_r, d1, d2, decay \in Int] ==
    IF is_call
    THEN - decay
         - MulFix(MulFix(MulFix(r, K), disc_r), NormCdf(d2))
         + MulFix(MulFix(MulFix(q, S), disc_q), NormCdf(d1))
    ELSE - decay
         + MulFix(MulFix(MulFix(r, K), disc_r), NormCdf(-d2))
         - MulFix(MulFix(MulFix(q, S), disc_q), NormCdf(-d1))

\* the returned dict, from the discount factors, d1, d2 and pdf(d1)
ClosedFormGreeks[is_call \in BOOLEAN, S, K, r, q, sigma, T, sqrt_T, disc_q, disc_r, d1, d2, pdf_d1 \in Int] ==
    [delta |-> IF is_call THEN MulFix(disc_q, NormCdf(d1))
               ELSE MulFix(disc_q, NormCdf(d1) - SCALE),
     gamma |-> gamma_of[S, sigma, sqrt_T, disc_q, pdf_d1],
     vega |-> vega_of[S, sqrt_T, disc_q, pdf_d1],
     theta |-> DivInt(theta_of[is_call, S, K, r, q, disc_q, disc_r, d1, d2,
                               decay_of[S, sigma, sqrt_T, disc_q, pdf_d1]],
                      DaysPerYear),
     rho |-> IF is_call THEN MulFix(MulFix(MulFix(K, T), disc_r), NormCdf(d2))
             ELSE -MulFix(MulFix(MulFix(K, T), disc_r), NormCdf(-d2)),
     d1 |-> d1, d2 |-> d2]

\* the closed form once sqrt_T and d1 have been computed
GreeksFromD1[is_call \in BOOLEAN, S, K, r, q, sigma, T, sqrt_T, d1 \in Int] ==
    ClosedFormGreeks[is_call, S, K, r, q, sigma, T, sqrt_T,
                     ExpFix(-MulFix(q, T)), ExpFix(-MulFix(r, T)),
                     d1, d2_of[sigma, sqrt_T, d1], NormPdf(d1)]

\* the closed form once sqrt_T has been computed
GreeksFromSqrtT[is_call \in BOOLEAN, S, K, r, q, sigma, T, sqrt_T \in Int] ==
    GreeksFromD1[is_call, S, K, r, q, sigma, T, sqrt_T,
                 d1_of[S, K, r, q, sigma, T, sqrt_T]]

GreeksClosedForm(option, market, T) ==
    GreeksFromSqrtT[option.option_type = "call", market.spot, option.strike, market.rate,
                    market.dividend_yield, market.volatility, T, SqrtFix(T)]

greeks(option, market, today) ==
    LET T == YearFrac(option, today)
    IN  IF T <= 0 THEN GreeksExpired(option, market)
        ELSE IF market.volatility <= 0 THEN GreeksZeroVol(option, market, T)
        ELSE GreeksClosedForm(option, market, T)

\* ------------------------------------------------------------------------
\* price() and the vega of greeks() on doubles, as implied_vol calls them
\* ------------------------------------------------------------------------
\* T = (option.expiry - today).days / 365.0
YearFracD(option, today) == DivSmall[FromInt[option.expiry - today], DaysPerYear]

\* math.exp(-rate * T)
DiscD[rate \in Seq(Int), T \in Seq(Int)] == ExpD[MulD[NegD[rate], T]]

\* d1 = (log(S / K) + (r - q + 0.5 * sigma ** 2) * T) / (sigma * sqrt_T)
d1D[S, K, r, q, sigma, T, sqrt_T \in Seq(Int)] ==
    DivD[AddD[LnD[DivD[S, K]], MulD[AddD[SubD[r, q], MulD[HalfD, SqD[sigma]]], T]],
         MulD[sigma, sqrt_T]]

\* d2 = d1 - sigma * sqrt_T
d2D[sigma, sqrt_T, d1 \in Seq(Int)] == SubD[d1, MulD[sigma, sqrt_T]]

\* if sigma <= 0: the discounted forward intrinsic value
PriceZeroVolD[is_call \in BOOLEAN, forward \in Seq(Int)] ==
    IF is_call THEN MaxD[forward, ZeroD] ELSE MaxD[NegD[forward], ZeroD]

\* the two legs of the value: S disc_q cdf(d1) - K disc_r cdf(d2) for a
\* call, K disc_r cdf(-d2) - S disc_q cdf(-d1) for a put
LegsD[is_call \in BOOLEAN, s_leg \in Seq(Int), k_leg \in Seq(Int)] ==
    IF is_call THEN SubD[s_leg, k_leg] ELSE SubD[k_leg, s_leg]

\* x for a call, -x for a put
Signed12[is_call \in BOOLEAN, x \in Seq(Int)] == IF is_call THEN x ELSE NegD[x]

\* the call and put formulas, from the discount factors and d1, d2
ClosedFormValueD[is_call \in BOOLEAN, S, K, disc_q, disc_r, d1, d2 \in Seq(Int)] ==
    LegsD[is_call, MulD[MulD[S, disc_q], NormCdfD[Signed12[is_call, d1]]],
                   MulD[MulD[K, disc_r], NormCdfD[Signed12[is_call, d2]]]]

\* the closed form once sqrt_T and d1 have been computed
PriceFromD1D[is_call \in BOOLEAN, S, K, r, q, sigma, T, sqrt_T, d1 \in Seq(Int)] ==
    ClosedFormValueD[is_call, S, K, DiscD[q, T], DiscD[r, T], d1, d2D[sigma, sqrt_T, d1]]

\* the closed form once sqrt_T has been computed
PriceFromSqrtTD[is_call \in BOOLEAN, S, K, r, q, sigma, T, sqrt_T \in Seq(Int)] ==
    PriceFromD1D[is_call, S, K, r, q, sigma, T, sqrt_T, d1D[S, K, r, q, sigma, T, sqrt_T]]

\* price() once the inputs are doubles and T has been computed
PriceAtD[is_call \in BOOLEAN, S, K, r, q, sigma, T \in Seq(Int)] ==
    IF T[1] <= 0 THEN (IF is_call THEN MaxD[SubD[S, K], ZeroD] ELSE MaxD[SubD[K, S], ZeroD])
    ELSE IF sigma[1] <= 0
    THEN PriceZeroVolD[is_call, SubD[MulD[S, DiscD[q, T]], MulD[K, DiscD[r, T]]]]
    ELSE PriceFromSqrtTD[is_call, S, K, r, q, sigma, T, SqrtD[T]]

\* price(option, market, today) for a market whose volatility is a double
priceD(option, market, today) ==
    PriceAtD[option.option_type = "call", FromFix[market.spot], FromFix[option.strike],
             FromFix[market.rate], FromFix[market.dividend_yield], market.volatility,
             YearFracD(option, today)]

\* vega = S * disc_q * pdf_d1 * sqrt_T
VegaFromSqrtTD[S, K, r, q, sigma, T, sqrt_T \in Seq(Int)] ==
    MulD[MulD[MulD[S, DiscD[q, T]], NormPdfD[d1D[S, K, r, q, sigma, T, sqrt_T]]], sqrt_T]

\* greeks()["vega"] once the inputs are doubles and T has been computed:
\* 0.0 at expiry and at zero volatility
VegaAtD[S, K, r, q, sigma, T \in Seq(Int)] ==
    IF T[1] <= 0 \/ sigma[1] <= 0 THEN ZeroD
    ELSE VegaFromSqrtTD[S, K, r, q, sigma, T, SqrtD[T]]

\* greeks(option, market, today)["vega"] for a market whose volatility is a double
vegaD(option, market, today) ==
    VegaAtD[FromFix[market.spot], FromFix[option.strike], FromFix[market.rate],
            FromFix[market.dividend_yield], market.volatility, YearFracD(option, today)]

\* ------------------------------------------------------------------------
\* Position and portfolio aggregation
\* ------------------------------------------------------------------------
\* mutant: the contract's own quantity field is multiplied in as well
position_price_BothQuantities(pos, market, today) ==
    MulFix(MulFix(pos.quantity, pos.contract.quantity),
           price(pos.contract, market, today))

position_price(pos, market, today) ==
    MulFix(pos.quantity, price(pos.contract, market, today))

\* the three shapes of the dict that greeks returns
GreekDicts ==
    [delta : Int, gamma : Int, vega : Int, theta : Int, rho : Int]
      \cup [price_intrinsic : Int, delta : Int, gamma : Int, vega : Int, theta : Int,
            rho : Int]
      \cup [delta : Int, gamma : Int, vega : Int, theta : Int, rho : Int,
            d1 : Int, d2 : Int]

\* scale greeks by position quantity
ScaledGreeks[n \in Int, g \in GreekDicts] ==
    [delta |-> MulFix(n, g.delta),
     gamma |-> MulFix(n, g.gamma),
     vega |-> MulFix(n, g.vega),
     theta |-> MulFix(n, g.theta),
     rho |-> MulFix(n, g.rho)]

\* mutant: the magnitude of the quantity is used, so a short position keeps
\* the sign of a long one
position_greeks_AbsQuantity(pos, market, today) ==
    ScaledGreeks[Abs(pos.quantity), greeks(pos.contract, market, today)]

position_greeks(pos, market, today) ==
    ScaledGreeks[pos.quantity, greeks(pos.contract, market, today)]

\* sum(position_price(p, market, today) for p in positions)
RECURSIVE SumPrices(_, _, _)
SumPrices(ps, market, today) ==
    IF ps = << >> THEN 0
    ELSE position_price(Head(ps), market, today) + SumPrices(Tail(ps), market, today)

portfolio_price(ps, market, today) == SumPrices(ps, market, today)

GreekNames == {"delta", "gamma", "vega", "theta", "rho"}

\* for p in positions: totals[k] += g[k], for one key k of totals
RECURSIVE SumGreeks(_, _, _, _)
SumGreeks(ps, market, today, k) ==
    IF ps = << >> THEN 0
    ELSE position_greeks(Head(ps), market, today)[k] + SumGreeks(Tail(ps), market, today, k)

\* totals = {"delta": 0.0, ...}; one pass over the positions per key
portfolio_greeks(ps, market, today) ==
    [k \in GreekNames |-> SumGreeks(ps, market, today, k)]

\* mutant: the sign of the hedge is lost
delta_hedge_shares_SameSign(ps, market, today) ==
    portfolio_greeks(ps, market, today).delta

delta_hedge_shares(ps, market, today) ==
    -(portfolio_greeks(ps, market, today).delta)

\* ------------------------------------------------------------------------
\* State
\* ------------------------------------------------------------------------
VARIABLES
    option,         \* the contract of the call in progress
    market,         \* the market snapshot passed by the caller
    today,          \* the valuation date (day number)
    positions,      \* the portfolio passed by the caller
    pc,             \* position of the call in progress
    ret,            \* what the call returned
    err,            \* what the call raised
    market_price,   \* implied_vol: observed price
    initial_guess,  \* implied_vol: keyword argument
    tol,            \* implied_vol: keyword argument
    max_iter,       \* implied_vol: keyword argument
    sigma,          \* implied_vol: Newton-Raphson iterate
    low,            \* implied_vol: bisection bracket
    high,
    iter,           \* iterations taken in the current loop
    n_price,        \* evaluations of price() / portfolio_price() so far
    n_greeks,       \* evaluations of greeks() / portfolio_greeks() so far
    args,           \* scenario evaluators: the arguments of the call
    results,        \* scenario evaluators: the records built so far
    rng,            \* the process-wide random generator (numpy's global state)
    calls,          \* the call of monte_carlo_scenario each thread is in
    log             \* the calls that have ended so far, in order

inputVars == <<option, market, today, positions>>
solverInputs == <<market_price, initial_guess, tol, max_iter>>
solverVars == <<sigma, low, high, iter, n_price, n_greeks>>
scenarioVars == <<args, results, rng>>
callVars == <<calls, log>>
vars == <<option, market, today, positions, pc, ret, err,
          market_price, initial_guess, tol, max_iter,
          sigma, low, high, iter, n_price, n_greeks, args, results, rng,
          calls, log>>

NoRet == [op |-> "none"]
NoErr == [kind |-> "none"]
NoArgs == [fn |-> "none"]

\* ------------------------------------------------------------------------
\* Inputs explored
\* ------------------------------------------------------------------------
ExpiryDay == 148
Strikes == {Fix(50), Fix(100), Fix(180)}
Spots == {Fix(100), Fix(185)}
Rates == {0, 30000}
DividendYields == {0, 5000, 30000}
Volatilities == {-100000, 0, 50000, 250000}
Todays == {0, ExpiryDay, ExpiryDay + 5}

Contracts ==
    {OptionContract(t, k, ExpiryDay, SCALE) : t \in {"call", "put"}, k \in Strikes}

Markets ==
    {MarketSnapshot(s, r, q, v, "2026-01-22") :
        s \in Spots, r \in Rates, q \in DividendYields, v \in Volatilities}

SolverIdle ==
    /\ market_price = ZeroD /\ initial_guess = ZeroD /\ tol = ZeroD /\ max_iter = 0
    /\ sigma = ZeroD /\ low = ZeroD /\ high = ZeroD /\ iter = 0
    /\ n_price = 0 /\ n_greeks = 0

\* the generator before any call has touched it
RngAt(state) == [state |-> state, seeds |-> 0, draws |-> 0]

\* the threads that call monte_carlo_scenario, and a thread outside a call
Threads == {1, 2}
IdleCall ==
    [pc |-> "idle", args |-> NoArgs, found |-> 0, Z |-> << >>, ret |-> NoRet, err |-> NoErr]

NoCalls == calls = [w \in Threads |-> IdleCall] /\ log = << >>

ScenarioIdle == args = NoArgs /\ results = << >> /\ rng = RngAt(0) /\ NoCalls

\* ------------------------------------------------------------------------
\* Single-contract calls: price and greeks
\* ------------------------------------------------------------------------
Init ==
    /\ option \in Contracts
    /\ market \in Markets
    /\ today \in Todays
    /\ positions = << >>
    /\ pc = "ready"
    /\ ret = NoRet
    /\ err = NoErr
    /\ SolverIdle
    /\ ScenarioIdle

CallPrice ==
    /\ pc = "ready"
    /\ ret' = [op |-> "price", value |-> price(option, market, today)]
    /\ pc' = "done"
    /\ UNCHANGED <<inputVars, scenarioVars, callVars, err, solverInputs, solverVars>>

CallGreeks ==
    /\ pc = "ready"
    /\ ret' = [op |-> "greeks", value |-> greeks(option, market, today)]
    /\ pc' = "done"
    /\ UNCHANGED <<inputVars, scenarioVars, callVars, err, solverInputs, solverVars>>

Next == CallPrice \/ CallGreeks

Spec == Init /\ [][Next]_vars

\* ------------------------------------------------------------------------
\* Properties of price and greeks
\* ------------------------------------------------------------------------
Returned(op) == pc = "done" /\ ret.op = op
DaysLeft == option.expiry - today
IsCall == option.option_type = "call"

\* the discounted forward S e^(-qT) - K e^(-rT) of the state's inputs
DiscQ == ExpFix(-MulFix(market.dividend_yield, YearFrac(option, today)))
DiscR == ExpFix(-MulFix(market.rate, YearFrac(option, today)))
Forward == MulFix(market.spot, DiscQ) - MulFix(option.strike, DiscR)
FullRho == MulFix(MulFix(YearFrac(option, today), option.strike), DiscR)

\* C1: valued at or after expiry (T <= 0), price returns exactly the
\* undiscounted intrinsic value, max(spot - strike, 0) for a call and
\* max(strike - spot, 0) for a put, whatever volatility, rate and yield.
C1_IntrinsicAtExpiry ==
    (Returned("price") /\ DaysLeft <= 0) =>
        ret.value = IF IsCall
                    THEN (IF market.spot > option.strike
                          THEN market.spot - option.strike ELSE 0)
                    ELSE (IF option.strike > market.spot
                          THEN option.strike - market.spot ELSE 0)

\* an in-the-money contract valued after expiry with volatility <= 0 and rate > 0
C1_Witness ==
    /\ Returned("price") /\ DaysLeft < 0
    /\ market.volatility <= 0 /\ market.rate > 0 /\ market.dividend_yield = 0
    /\ ret.value > 0

\* C2: at or after expiry greeks returns gamma = vega = theta = rho = 0 and
\* delta is the step function of spot against strike: call 1 / 0 / 0.5,
\* put -1 / 0 / -0.5 for in the money / out of the money / spot == strike.
C2_GreeksAtExpiry ==
    (Returned("greeks") /\ DaysLeft <= 0) =>
        /\ ret.value.gamma = 0 /\ ret.value.vega = 0
        /\ ret.value.theta = 0 /\ ret.value.rho = 0
        /\ IsCall =>
             ret.value.delta = (IF market.spot > option.strike THEN SCALE
                                ELSE IF market.spot < option.strike THEN 0
                                ELSE SCALE \div 2)
        /\ ~IsCall =>
             ret.value.delta = (IF market.spot < option.strike THEN -SCALE
                                ELSE IF market.spot > option.strike THEN 0
                                ELSE -(SCALE \div 2))

\* a put exactly at the money at expiry: delta -0.5
C2_Witness ==
    /\ Returned("greeks") /\ DaysLeft = 0
    /\ ~IsCall /\ market.spot = option.strike
    /\ ret.value.delta = -(SCALE \div 2)

\* C3 as stated: for T > 0 and volatility <= 0, gamma = vega = theta = 0 and
\* delta and rho are step functions of the discounted forward F with the
\* same tie-break: full value in the money, 0 out of the money, half of the
\* full value at F == 0.
C3_SameTieBreak ==
    (Returned("greeks") /\ DaysLeft > 0 /\ market.volatility <= 0) =>
        /\ ret.value.gamma = 0 /\ ret.value.vega = 0 /\ ret.value.theta = 0
        /\ IsCall =>
             /\ ret.value.delta = (IF Forward > 0 THEN DiscQ
                                   ELSE IF Forward < 0 THEN 0
                                   ELSE MulFix(SCALE \div 2, DiscQ))
             /\ ret.value.rho = (IF Forward > 0 THEN FullRho
                                 ELSE IF Forward < 0 THEN 0
                                 ELSE MulFix(SCALE \div 2, FullRho))
        /\ ~IsCall =>
             /\ ret.value.delta = (IF Forward < 0 THEN -DiscQ
                                   ELSE IF Forward > 0 THEN 0
                                   ELSE -MulFix(SCALE \div 2, DiscQ))
             /\ ret.value.rho = (IF Forward < 0 THEN -FullRho
                                 ELSE IF Forward > 0 THEN 0
                                 ELSE -MulFix(SCALE \div 2, FullRho))

\* C3 amended: for T > 0 and volatility <= 0, gamma = vega = theta = 0;
\* delta is the step function of F with half weight at F == 0; rho is the
\* full value only strictly in the money on F and 0 otherwise, F == 0 included.
C3_DeltaTieRhoNoTie ==
    (Returned("greeks") /\ DaysLeft > 0 /\ market.volatility <= 0) =>
        /\ ret.value.gamma = 0 /\ ret.value.vega = 0 /\ ret.value.theta = 0
        /\ IsCall =>
             /\ ret.value.delta = (IF Forward > 0 THEN DiscQ
                                   ELSE IF Forward < 0 THEN 0
                                   ELSE MulFix(SCALE \div 2, DiscQ))
             /\ ret.value.rho = (IF Forward > 0 THEN FullRho ELSE 0)
        /\ ~IsCall =>
             /\ ret.value.delta = (IF Forward < 0 THEN -DiscQ
                                   ELSE IF Forward > 0 THEN 0
                                   ELSE -MulFix(SCALE \div 2, DiscQ))
             /\ ret.value.rho = (IF Forward < 0 THEN -FullRho ELSE 0)

\* zero volatility, F == 0 with a positive rate: half delta, zero rho
C3_Witness ==
    /\ Returned("greeks") /\ DaysLeft > 0 /\ market.volatility = 0
    /\ Forward = 0 /\ market.rate > 0 /\ IsCall
    /\ ret.value.delta = MulFix(SCALE \div 2, DiscQ) /\ ret.value.delta > 0
    /\ ret.value.rho = 0 /\ FullRho > 0

ParityTol == SCALE \div 1000
Counterpart ==
    [option EXCEPT !.option_type = IF IsCall THEN "put" ELSE "call"]
\* price(call) - price(put), the returned value being one of the two
CallMinusPut ==
    IF IsCall THEN ret.value - price(Counterpart, market, today)
    ELSE price(Counterpart, market, today) - ret.value

\* C4: for T > 0 a call and a put on the same strike and expiry satisfy
\* price(call) - price(put) = S e^(-qT) - K e^(-rT): within numerical
\* tolerance when volatility > 0, exactly when volatility <= 0.
C4_PutCallParity ==
    (Returned("price") /\ DaysLeft > 0) =>
        IF market.volatility <= 0
        THEN CallMinusPut = Forward
        ELSE Abs(CallMinusPut - Forward) <= ParityTol

\* a closed-form price with both legs worth something
C4_Witness ==
    /\ Returned("price") /\ DaysLeft > 0 /\ market.volatility > 0
    /\ market.rate > 0 /\ market.dividend_yield > 0
    /\ ret.value > SCALE /\ price(Counterpart, market, today) > SCALE

\* ------------------------------------------------------------------------
\* Portfolio calls
\* ------------------------------------------------------------------------
MaxPositions == 2

PortfolioContracts ==
    {OptionContract("call", Fix(180), ExpiryDay, SCALE),
     OptionContract("put", Fix(180), ExpiryDay, 10 * SCALE)}

Quantities == {-SCALE, 2 * SCALE, SCALE \div 2}

PositionSet == {Position(c, n) : c \in PortfolioContracts, n \in Quantities}

PositionLists == UNION {[1..n -> PositionSet] : n \in 0..MaxPositions}

PortfolioMarkets ==
    {MarketSnapshot(s, 30000, 5000, v, "2026-01-22") :
        s \in {Fix(185)}, v \in {0, 250000}}

InitPortfolio ==
    /\ option = OptionContract("call", Fix(180), ExpiryDay, SCALE)
    /\ market \in PortfolioMarkets
    /\ today \in {0, ExpiryDay}
    /\ positions \in PositionLists
    /\ pc = "ready"
    /\ ret = NoRet
    /\ err = NoErr
    /\ SolverIdle
    /\ ScenarioIdle

CallPositionPrice ==
    /\ pc = "ready"
    /\ \E i \in 1..Len(positions) :
         ret' = [op |-> "position_price", index |-> i,
                 value |-> position_price(positions[i], market, today)]
    /\ pc' = "done"
    /\ UNCHANGED <<inputVars, scenarioVars, callVars, err, solverInputs, solverVars>>

CallPositionGreeks ==
    /\ pc = "ready"
    /\ \E i \in 1..Len(positions) :
         ret' = [op |-> "position_greeks", index |-> i,
                 value |-> position_greeks(positions[i], market, today)]
    /\ pc' = "done"
    /\ UNCHANGED <<inputVars, scenarioVars, callVars, err, solverInputs, solverVars>>

CallPortfolioPrice ==
    /\ pc = "ready"
    /\ ret' = [op |-> "portfolio_price",
               value |-> portfolio_price(positions, market, today)]
    /\ pc' = "done"
    /\ UNCHANGED <<inputVars, scenarioVars, callVars, err, solverInputs, solverVars>>

CallPortfolioGreeks ==
    /\ pc = "ready"
    /\ ret' = [op |-> "portfolio_greeks",
               value |-> portfolio_greeks(positions, market, today)]
    /\ pc' = "done"
    /\ UNCHANGED <<inputVars, scenarioVars, callVars, err, solverInputs, solverVars>>

CallDeltaHedgeShares ==
    /\ pc = "ready"
    /\ ret' = [op |-> "delta_hedge_shares",
               value |-> delta_hedge_shares(positions, market, today)]
    /\ pc' = "done"
    /\ UNCHANGED <<inputVars, scenarioVars, callVars, err, solverInputs, solverVars>>

NextPortfolio ==
    \/ CallPositionPrice
    \/ CallPositionGreeks
    \/ CallPortfolioPrice
    \/ CallPortfolioGreeks
    \/ CallDeltaHedgeShares

SpecPortfolio == InitPortfolio /\ [][NextPortfolio]_vars

\* ------------------------------------------------------------------------
\* Properties of the aggregation layer
\* ------------------------------------------------------------------------

\* the contract with its own quantity field reset to the default 1.0
UnitContract(c) == [c EXCEPT !.quantity = SCALE]

\* C5 as stated: both multipliers scale a position: for contract quantity m
\* and position quantity n, position_price and position_greeks are n*m times
\* the single-contract price and Greeks.
C5_BothMultipliers ==
    /\ Returned("position_price") =>
         LET pos == positions[ret.index]
         IN  ret.value = MulFix(MulFix(pos.quantity, pos.contract.quantity),
                                price(UnitContract(pos.contract), market, today))
    /\ Returned("position_greeks") =>
         LET pos == positions[ret.index]
             g == greeks(UnitContract(pos.contract), market, today)
         IN  \A k \in GreekNames :
               ret.value[k] = MulFix(MulFix(pos.quantity, pos.contract.quantity), g[k])

\* C5 amended: only the position's signed quantity n scales a position:
\* position_price and position_greeks are n times the single-contract price
\* and Greeks, and do not depend on the contract's own quantity field m.
C5_PositionQuantityOnly ==
    /\ Returned("position_price") =>
         LET pos == positions[ret.index]
         IN  ret.value = MulFix(pos.quantity,
                                price(UnitContract(pos.contract), market, today))
    /\ Returned("position_greeks") =>
         LET pos == positions[ret.index]
             g == greeks(UnitContract(pos.contract), market, today)
         IN  \A k \in GreekNames : ret.value[k] = MulFix(pos.quantity, g[k])

\* a position of quantity 2 in a contract of quantity 10 with a positive price
C5_Witness ==
    /\ Returned("position_price")
    /\ positions[ret.index].quantity = 2 * SCALE
    /\ positions[ret.index].contract.quantity = 10 * SCALE
    /\ ret.value > 0
    /\ ret.value = 2 * price(positions[ret.index].contract, market, today)

\* the positions with the quantity of position i multiplied by the whole number k
ScaleAt(ps, i, k) ==
    [j \in 1..Len(ps) |-> IF j = i THEN [ps[j] EXCEPT !.quantity = k * @] ELSE ps[j]]
Factors == {-1, 3}

RECURSIVE SumOneByOnePrice(_, _)
SumOneByOnePrice(ps, i) ==
    IF i = 0 THEN 0
    ELSE SumOneByOnePrice(ps, i - 1) + portfolio_price(<<ps[i]>>, market, today)

RECURSIVE SumOneByOneGreek(_, _, _)
SumOneByOneGreek(ps, i, k) ==
    IF i = 0 THEN 0
    ELSE SumOneByOneGreek(ps, i - 1, k) + portfolio_greeks(<<ps[i]>>, market, today)[k]

\* C6 (value): portfolio_price is linear in the signed quantities:
\* multiplying one quantity by k changes the total by (k-1) times that
\* position's contribution (k = -1 negates it; up to the rounding of the
\* products, two units here), and the total of a list is
\* the sum of the totals of its positions taken one by one, however split.
C6_PriceLinear ==
    Returned("portfolio_price") =>
        /\ ret.value = SumOneByOnePrice(positions, Len(positions))
        /\ \A j \in 0..Len(positions) :
             ret.value = portfolio_price(SubSeq(positions, 1, j), market, today)
                         + portfolio_price(SubSeq(positions, j + 1, Len(positions)),
                                           market, today)
        /\ \A i \in 1..Len(positions) : \A k \in Factors :
             Abs(portfolio_price(ScaleAt(positions, i, k), market, today)
                 - (ret.value + (k - 1) * position_price(positions[i], market, today)))
               <= 2
        /\ \A i \in 1..Len(positions) :
             portfolio_price(<<[positions[i] EXCEPT !.quantity = -@]>>, market, today)
               = -portfolio_price(<<positions[i]>>, market, today)

\* C6 (Greeks): the same linearity for each of delta, gamma, vega, theta, rho.
C6_GreeksLinear ==
    Returned("portfolio_greeks") =>
        \A g \in GreekNames :
            /\ ret.value[g] = SumOneByOneGreek(positions, Len(positions), g)
            /\ \A j \in 0..Len(positions) :
                 ret.value[g] =
                     portfolio_greeks(SubSeq(positions, 1, j), market, today)[g]
                     + portfolio_greeks(SubSeq(positions, j + 1, Len(positions)),
                                        market, today)[g]
            /\ \A i \in 1..Len(positions) : \A k \in Factors :
                 Abs(portfolio_greeks(ScaleAt(positions, i, k), market, today)[g]
                     - (ret.value[g]
                        + (k - 1) * position_greeks(positions[i], market, today)[g]))
                   <= 2
            /\ \A i \in 1..Len(positions) :
                 portfolio_greeks(<<[positions[i] EXCEPT !.quantity = -@]>>,
                                  market, today)[g]
                   = -portfolio_greeks(<<positions[i]>>, market, today)[g]

\* C6: portfolio_price and the five portfolio Greeks are linear in the
\* positions' signed quantities and additive across positions.
C6_Linear == C6_PriceLinear /\ C6_GreeksLinear

\* a long and a short position in different contracts, with a live delta
C6_Witness ==
    /\ Returned("portfolio_greeks") /\ Len(positions) = 2
    /\ positions[1].quantity > 0 /\ positions[2].quantity < 0
    /\ positions[1].contract # positions[2].contract
    /\ market.volatility > 0 /\ today < ExpiryDay
    /\ ret.value.delta # 0 /\ ret.value.vega # 0

\* C7: delta_hedge_shares is the negation of the portfolio delta that
\* portfolio_greeks computes on the same inputs (their sum is zero), and is
\* zero for an empty portfolio.
C7_HedgeNegatesDelta ==
    Returned("delta_hedge_shares") =>
        /\ ret.value + portfolio_greeks(positions, market, today).delta = 0
        /\ ret.value = -SumOneByOneGreek(positions, Len(positions), "delta")
        /\ positions = << >> => ret.value = 0

\* a two-position portfolio with a non-zero net delta
C7_Witness ==
    /\ Returned("delta_hedge_shares") /\ Len(positions) = 2
    /\ ret.value # 0
    /\ portfolio_greeks(positions, market, today).delta = -ret.value


\* ------------------------------------------------------------------------
\* Implied-volatility solver, one action per step of implied_vol.
\* market_price, initial_guess, tol, sigma, low, high and the value returned
\* are doubles; the contract and the market keep their six-decimal fields,
\* which price() and greeks() read as doubles.
\* ------------------------------------------------------------------------
DefaultGuess == 200000
DefaultTol == 1
DefaultMaxIter == 50
MinGuess == 100
BisectLow == 1
BisectHigh == 5000000
BisectIters == 100
\* 1e-8, the vega below which Newton-Raphson gives up
VegaFloor == <<1, -2, 1, 0, 0, 0>>

\* raise ImpliedVolError(...)
ErrMarketPrice == [kind |-> "ImpliedVolError", msg |-> "Market price must be positive"]
ErrAtExpiry == [kind |-> "ImpliedVolError", msg |-> "Implied vol undefined at expiry"]
\* mutant: the last raise reuses the message of the first
ErrNotConverged_SameMessage ==
    [kind |-> "ImpliedVolError", msg |-> "Market price must be positive"]
ErrNotConverged ==
    [kind |-> "ImpliedVolError", msg |-> "Implied volatility did not converge"]

\* ValueError("math domain error"), raised by math.log
ErrMathDomain == [kind |-> "ValueError", msg |-> "math domain error"]

\* mutant: a zero price passes the first check
PriceInvalid_Strict(mp) == mp[1] < 0
\* if market_price <= 0
PriceInvalid(mp) == mp[1] <= 0
\* if T <= 0
ExpiryInvalid(T) == T[1] <= 0

\* mutant: the absolute value is forgotten
Converged_NoAbs(diff, tolerance) == LtD(diff, tolerance)
\* if abs(diff) < tol
Converged(diff, tolerance) == LtD(AbsD[diff], tolerance)

\* if vega < 1e-8
VegaTooSmall(vega) == LtD(vega, VegaFloor)

\* MarketSnapshot(spot=market.spot, ..., volatility=v, timestamp=market.timestamp)
MarketWith(m, v) ==
    MarketSnapshot(m.spot, m.rate, m.dividend_yield, v, m.timestamp)

\* sigma -= diff / vega
NewtonUpdate(s, diff, vega) == SubD[s, DivD[diff, vega]]

\* mutant: the halving is forgotten, so the midpoint leaves the bracket
Mid_NoHalf(lo, hi) == AddD[lo, hi]
\* mid = 0.5 * (low + high)
Mid(lo, hi) == MulD[HalfD, AddD[lo, hi]]

\* math.log(S / K) in price and greeks raises ValueError for S <= 0 (the
\* strike of a contract is positive); it is reached only past the expiry
\* guard and the zero-volatility guard
PriceRaisesAt(v) ==
    /\ YearFracD(option, today)[1] > 0
    /\ v[1] > 0
    /\ market.spot <= 0

\* price(option, market_with_sigma, today)
ModelPrice(v) == priceD(option, MarketWith(market, v), today)
\* greeks(option, market_with_sigma, today)["vega"]
ModelVega(v) == vegaD(option, MarketWith(market, v), today)
\* diff = model_price - market_price
ModelDiff(v) == SubD[ModelPrice(v), market_price]

RejectPrice ==
    /\ pc = "ready"
    /\ PriceInvalid(market_price)
    /\ err' = ErrMarketPrice
    /\ pc' = "raised"
    /\ UNCHANGED <<inputVars, scenarioVars, callVars, ret, solverInputs, solverVars>>

RejectExpiry ==
    /\ pc = "ready"
    /\ ~PriceInvalid(market_price)
    /\ ExpiryInvalid(YearFracD(option, today))
    /\ err' = ErrAtExpiry
    /\ pc' = "raised"
    /\ UNCHANGED <<inputVars, scenarioVars, callVars, ret, solverInputs, solverVars>>

\* sigma = max(initial_guess, 1e-4)
StartNewton ==
    /\ pc = "ready"
    /\ ~PriceInvalid(market_price)
    /\ ~ExpiryInvalid(YearFracD(option, today))
    /\ sigma' = MaxD[initial_guess, FromFix[MinGuess]]
    /\ iter' = 0
    /\ pc' = "newton"
    /\ UNCHANGED <<inputVars, scenarioVars, callVars, ret, err, solverInputs, low, high, n_price, n_greeks>>

\* an iteration whose call of price raises: the error leaves implied_vol
NewtonRaises ==
    /\ pc = "newton" /\ iter < max_iter
    /\ PriceRaisesAt(sigma)
    /\ n_price' = n_price + 1
    /\ err' = ErrMathDomain
    /\ pc' = "raised"
    /\ UNCHANGED <<inputVars, scenarioVars, callVars, ret, solverInputs, sigma, low, high, iter, n_greeks>>

\* an iteration that ends in "return sigma"
NewtonReturn ==
    /\ pc = "newton" /\ iter < max_iter
    /\ ~PriceRaisesAt(sigma)
    /\ Converged(ModelDiff(sigma), tol)
    /\ n_price' = n_price + 1
    /\ ret' = [op |-> "implied_vol", value |-> sigma]
    /\ pc' = "returned"
    /\ UNCHANGED <<inputVars, scenarioVars, callVars, err, solverInputs, sigma, low, high, iter, n_greeks>>

\* mutant: the vega test is made before the convergence test
NewtonVegaBreak_BeforeConvergence ==
    /\ pc = "newton" /\ iter < max_iter
    /\ ~PriceRaisesAt(sigma)
    /\ VegaTooSmall(ModelVega(sigma))
    /\ n_price' = n_price + 1
    /\ n_greeks' = n_greeks + 1
    /\ low' = FromFix[BisectLow] /\ high' = FromFix[BisectHigh]
    /\ iter' = 0
    /\ pc' = "bisect"
    /\ UNCHANGED <<inputVars, scenarioVars, callVars, ret, err, solverInputs, sigma>>

\* an iteration that ends in "if vega < 1e-8: break"
NewtonVegaBreak ==
    /\ pc = "newton" /\ iter < max_iter
    /\ ~PriceRaisesAt(sigma)
    /\ ~Converged(ModelDiff(sigma), tol)
    /\ VegaTooSmall(ModelVega(sigma))
    /\ n_price' = n_price + 1
    /\ n_greeks' = n_greeks + 1
    /\ low' = FromFix[BisectLow] /\ high' = FromFix[BisectHigh]
    /\ iter' = 0
    /\ pc' = "bisect"
    /\ UNCHANGED <<inputVars, scenarioVars, callVars, ret, err, solverInputs, sigma>>

\* an iteration that updates sigma and ends in "if sigma <= 0: break"
NewtonSigmaBreak ==
    /\ pc = "newton" /\ iter < max_iter
    /\ ~PriceRaisesAt(sigma)
    /\ ~Converged(ModelDiff(sigma), tol)
    /\ ~VegaTooSmall(ModelVega(sigma))
    /\ sigma' = NewtonUpdate(sigma, ModelDiff(sigma), ModelVega(sigma))
    /\ sigma'[1] <= 0
    /\ n_price' = n_price + 1
    /\ n_greeks' = n_greeks + 1
    /\ low' = FromFix[BisectLow] /\ high' = FromFix[BisectHigh]
    /\ iter' = 0
    /\ pc' = "bisect"
    /\ UNCHANGED <<inputVars, scenarioVars, callVars, ret, err, solverInputs>>

\* an iteration that updates sigma and goes round the loop
NewtonStep ==
    /\ pc = "newton" /\ iter < max_iter
    /\ ~PriceRaisesAt(sigma)
    /\ ~Converged(ModelDiff(sigma), tol)
    /\ ~VegaTooSmall(ModelVega(sigma))
    /\ sigma' = NewtonUpdate(sigma, ModelDiff(sigma), ModelVega(sigma))
    /\ sigma'[1] > 0
    /\ n_price' = n_price + 1
    /\ n_greeks' = n_greeks + 1
    /\ iter' = iter + 1
    /\ UNCHANGED <<inputVars, scenarioVars, callVars, pc, ret, err, solverInputs, low, high>>

\* range(max_iter) is exhausted: low, high = 1e-6, 5.0
NewtonExhausted ==
    /\ pc = "newton" /\ iter >= max_iter
    /\ low' = FromFix[BisectLow] /\ high' = FromFix[BisectHigh]
    /\ iter' = 0
    /\ pc' = "bisect"
    /\ UNCHANGED <<inputVars, scenarioVars, callVars, ret, err, solverInputs, sigma, n_price, n_greeks>>

\* a bisection iteration whose call of price raises
BisectRaises ==
    /\ pc = "bisect" /\ iter < BisectIters
    /\ PriceRaisesAt(Mid(low, high))
    /\ n_price' = n_price + 1
    /\ err' = ErrMathDomain
    /\ pc' = "raised"
    /\ UNCHANGED <<inputVars, scenarioVars, callVars, ret, solverInputs, sigma, low, high, iter, n_greeks>>

\* a bisection iteration that ends in "return mid"
BisectReturn ==
    /\ pc = "bisect" /\ iter < BisectIters
    /\ ~PriceRaisesAt(Mid(low, high))
    /\ Converged(ModelDiff(Mid(low, high)), tol)
    /\ n_price' = n_price + 1
    /\ ret' = [op |-> "implied_vol", value |-> Mid(low, high)]
    /\ pc' = "returned"
    /\ UNCHANGED <<inputVars, scenarioVars, callVars, err, solverInputs, sigma, low, high, iter, n_greeks>>

\* mutant: the bound on the wrong side of the midpoint is replaced
BisectStep_WrongSide ==
    /\ pc = "bisect" /\ iter < BisectIters
    /\ ~PriceRaisesAt(Mid(low, high))
    /\ ~Converged(ModelDiff(Mid(low, high)), tol)
    /\ IF LtD(market_price, ModelPrice(Mid(low, high)))
       THEN low' = Mid(low, high) /\ high' = high
       ELSE high' = Mid(low, high) /\ low' = low
    /\ n_price' = n_price + 1
    /\ iter' = iter + 1
    /\ UNCHANGED <<inputVars, scenarioVars, callVars, pc, ret, err, solverInputs, sigma, n_greeks>>

\* a bisection iteration that narrows the bracket: if mid_price > market_price
\* the midpoint becomes high, else low
BisectStep ==
    /\ pc = "bisect" /\ iter < BisectIters
    /\ ~PriceRaisesAt(Mid(low, high))
    /\ ~Converged(ModelDiff(Mid(low, high)), tol)
    /\ IF LtD(market_price, ModelPrice(Mid(low, high)))
       THEN high' = Mid(low, high) /\ low' = low
       ELSE low' = Mid(low, high) /\ high' = high
    /\ n_price' = n_price + 1
    /\ iter' = iter + 1
    /\ UNCHANGED <<inputVars, scenarioVars, callVars, pc, ret, err, solverInputs, sigma, n_greeks>>

\* mutant: when the bisection is exhausted the call tries Newton-Raphson again
BisectExhausted_Retry ==
    /\ pc = "bisect" /\ iter >= BisectIters
    /\ iter' = 0
    /\ pc' = "newton"
    /\ UNCHANGED <<inputVars, scenarioVars, callVars, ret, err, solverInputs,
                   sigma, low, high, n_price, n_greeks>>

\* raise ImpliedVolError("Implied volatility did not converge")
BisectExhausted ==
    /\ pc = "bisect" /\ iter >= BisectIters
    /\ err' = ErrNotConverged
    /\ pc' = "raised"
    /\ UNCHANGED <<inputVars, scenarioVars, callVars, ret, solverInputs, solverVars>>

NextSolver ==
    \/ RejectPrice
    \/ RejectExpiry
    \/ StartNewton
    \/ NewtonRaises
    \/ NewtonReturn
    \/ NewtonVegaBreak
    \/ NewtonSigmaBreak
    \/ NewtonStep
    \/ NewtonExhausted
    \/ BisectRaises
    \/ BisectReturn
    \/ BisectStep
    \/ BisectExhausted

\* Inputs of the solver runs: the contract and market of the repository's
\* tests, a put on the same market, and a deep in-the-money call whose price
\* hardly moves with sigma. Observed prices are model prices at known
\* volatilities (a round trip, as the tests make them), the same prices as
\* quoted to six decimals, prices no volatility explains, prices within and
\* beyond the tolerance of the upper end of the bisection bracket, and
\* markets whose spot is zero or negative. The tolerance is the default, a
\* larger one, zero or negative: the solver takes whatever it is given.
SmallMaxIter == 2
TrueVols == {50000, 350000, 1200000}
Tolerances == {FromFix[DefaultTol], FromFix[SCALE \div 1000]}
TestCall == OptionContract("call", Fix(180), ExpiryDay, SCALE)
DeepCall == OptionContract("call", Fix(50), ExpiryDay, SCALE)
SolverContracts == {TestCall, OptionContract("put", Fix(180), ExpiryDay, SCALE)}
FlatMarket == MarketSnapshot(Fix(100), 0, 0, 200000, "2026-01-22")
TestMarket == MarketSnapshot(Fix(185), 30000, 5000, 200000, "2026-01-22")
SolverMarkets ==
    {TestMarket, MarketSnapshot(Fix(185), 30000, 5000, 900000, "2026-01-22")}
\* the test call's prices at 0.35 and 1.2, to six decimals
QuotedPrices == {FromFix[19707189], FromFix[57392598]}
\* prices that fail the first check
RejectedPrices == {ZeroD, FromInt[-1]}
\* positive prices off the range of the calls: below their lower bound,
\* above the deep call's range of flat vega, above the spot
BadPrices == {FromInt[1], FromInt[100], FromInt[300]}
\* model prices at the given volatilities
ModelPrices(o, m, t, vols) == {priceD(o, MarketWith(m, FromFix[v]), t) : v \in vols}

\* a round trip: the observed price is a model price
RoundTripInputs ==
    /\ option \in SolverContracts
    /\ market \in SolverMarkets
    /\ today \in {0, ExpiryDay}
    /\ market_price \in ModelPrices(option, market, today, TrueVols) \cup RejectedPrices
    /\ tol = FromFix[DefaultTol]

\* the test call at a quoted price, under both tolerances
QuotedInputs ==
    /\ option = TestCall
    /\ market = TestMarket
    /\ today = 0
    /\ market_price \in QuotedPrices
    /\ tol \in Tolerances

\* a call at a price that Newton-Raphson cannot reach, and the deep call at
\* its own price
HardInputs ==
    /\ \/ option = TestCall /\ market = TestMarket
       \/ option = DeepCall /\ market = FlatMarket
    /\ today \in {0, ExpiryDay}
    /\ market_price \in BadPrices \cup ModelPrices(DeepCall, FlatMarket, today, {50000})
    /\ tol = FromFix[DefaultTol]

\* tolerances that are no tolerance: implied_vol does not check tol, and
\* abs(diff) < tol is false for every diff once tol <= 0
NoTolerances == {ZeroD, NegD[FromFix[DefaultTol]]}

\* the test call at a price its volatility 0.35 explains, under no tolerance
NoToleranceInputs ==
    /\ option = TestCall
    /\ market = TestMarket
    /\ today = 0
    /\ market_price = FromFix[19707189]
    /\ tol \in NoTolerances

\* half the default tolerance, and twice
HalfTolD == DivSmall[FromFix[DefaultTol], 2]
TwiceTolD == MulSmall[FromFix[DefaultTol], 2]

\* prices just above the range of the bisection bracket: the test call's
\* price at sigma = 5.0, plus half the default tolerance and plus twice
EdgePrices ==
    {AddD[priceD(TestCall, MarketWith(TestMarket, FromFix[BisectHigh]), 0), d] :
        d \in {HalfTolD, TwiceTolD}}

EdgeInputs ==
    /\ option = TestCall
    /\ market = TestMarket
    /\ today = 0
    /\ market_price \in EdgePrices
    /\ tol = FromFix[DefaultTol]

\* a market whose spot is not positive: price cannot take the logarithm
DomainInputs ==
    /\ option = TestCall
    /\ market \in {MarketSnapshot(s, 30000, 5000, 200000, "2026-01-22") : s \in {0, Fix(-5)}}
    /\ today \in {0, ExpiryDay}
    /\ market_price \in {ZeroD, FromInt[5]}
    /\ tol = FromFix[DefaultTol]

InitSolver ==
    /\ \/ RoundTripInputs \/ QuotedInputs \/ HardInputs \/ DomainInputs
       \/ NoToleranceInputs \/ EdgeInputs
    /\ positions = << >>
    /\ pc = "ready"
    /\ ret = NoRet
    /\ err = NoErr
    /\ initial_guess \in {FromFix[DefaultGuess], ZeroD}
    /\ max_iter \in {0, SmallMaxIter, DefaultMaxIter}
    /\ sigma = ZeroD /\ low = ZeroD /\ high = ZeroD /\ iter = 0
    /\ n_price = 0 /\ n_greeks = 0
    /\ ScenarioIdle

SpecSolver == InitSolver /\ [][NextSolver]_vars

\* the call runs on: nothing suspends it, so a step that can be taken is taken
SpecSolverFair == SpecSolver /\ WF_vars(NextSolver)

\* ------------------------------------------------------------------------
\* Properties of the solver
\* ------------------------------------------------------------------------
Raised == pc = "raised"

\* C8: implied_vol fails with an error without evaluating price or greeks
\* even once whenever observed_price <= 0 or T <= 0, for every initial
\* guess, tolerance and iteration limit.
C8_RejectsBeforeEvaluating ==
    (market_price[1] <= 0 \/ DaysLeft <= 0) =>
        /\ pc \in {"ready", "raised"}
        /\ n_price = 0 /\ n_greeks = 0
        /\ Raised => err.kind = "ImpliedVolError"

\* a positive price at expiry, rejected under the default iteration limit
C8_Witness ==
    /\ Raised /\ market_price[1] > 0 /\ DaysLeft <= 0
    /\ max_iter = DefaultMaxIter
    /\ err = ErrAtExpiry /\ n_price = 0 /\ n_greeks = 0

\* C9 as stated: the error raised after Newton-Raphson and bisection are
\* both exhausted is of a kind distinct from the kind raised for invalid input.
C9_DistinctErrorKind ==
    (Raised /\ market_price[1] > 0 /\ DaysLeft > 0 /\ iter = BisectIters) =>
        err.kind \notin {ErrMarketPrice.kind, ErrAtExpiry.kind}

\* C9 amended: every error implied_vol raises itself is an ImpliedVolError;
\* its three failures differ only in the message, and the message of the
\* non-convergence error is raised only after 100 bisection iterations. The
\* one other error that leaves the call is the ValueError of price() for a
\* spot that is not positive, which passes through unchanged.
C9_SameKindDistinctMessage ==
    Raised =>
        /\ market_price[1] <= 0 => err = ErrMarketPrice
        /\ (market_price[1] > 0 /\ DaysLeft <= 0) => err = ErrAtExpiry
        /\ (market_price[1] > 0 /\ DaysLeft > 0 /\ market.spot > 0) =>
             /\ err.kind = "ImpliedVolError"
             /\ err.msg = "Implied volatility did not converge"
             /\ iter = BisectIters /\ n_price >= BisectIters
        /\ (market_price[1] > 0 /\ DaysLeft > 0 /\ market.spot <= 0) =>
             /\ err = ErrMathDomain
             /\ iter = 0 /\ n_price = 1 /\ n_greeks = 0
        /\ ErrMarketPrice.kind = "ImpliedVolError" /\ ErrAtExpiry.kind = "ImpliedVolError"
        /\ ErrMarketPrice.msg # ErrAtExpiry.msg

\* both phases exhausted on a price above the spot
C9_Witness ==
    /\ Raised /\ market_price = FromInt[300] /\ DaysLeft > 0
    /\ max_iter = DefaultMaxIter /\ n_greeks > 0
    /\ iter = BisectIters
    /\ err.msg = "Implied volatility did not converge"

\* the true volatilities whose model price is the observed price
Explaining == {v \in TrueVols : market_price = ModelPrice(FromFix[v])}

\* |x - v| < 1e-4 for a double x and a six-decimal v
Within1e4(x, v) == LtD(AbsD[SubD[x, FromFix[v]]], FromFix[MinGuess])

\* C10 as stated: at the default tolerance, implied_vol applied to
\* price(contract, market with volatility v, today) returns sigma with
\* |sigma - v| < 1e-4, whatever volatility the market passed carries.
C10_RoundTripInSigma ==
    (pc = "returned" /\ DaysLeft > 0 /\ tol = FromFix[DefaultTol]) =>
        \A v \in Explaining : Within1e4(ret.value, v)

\* C10 amended: the round trip holds in price, not in sigma: the sigma
\* returned for the price at volatility v reprices the contract to within
\* the tolerance of that price, whatever volatility the market passed carries.
C10_RoundTripInPrice ==
    (pc = "returned" /\ DaysLeft > 0 /\ Explaining # {}) =>
        LtD(AbsD[ModelDiff(ret.value)], tol)

\* the deep in-the-money call priced at v = 0.05 comes back as the guess 0.2
C10_Witness ==
    /\ pc = "returned" /\ DaysLeft > 0 /\ tol = FromFix[DefaultTol]
    /\ option = DeepCall /\ 50000 \in Explaining
    /\ initial_guess = FromFix[DefaultGuess] /\ max_iter = DefaultMaxIter
    /\ ret.value = FromFix[DefaultGuess]

\* the bisection phase was entered: Newton-Raphson did not return a result
NewtonGaveUp == high # ZeroD

\* the observed price lies between the model prices at the two ends of the
\* bisection bracket
Attainable ==
    /\ LeD(ModelPrice(FromFix[BisectLow]), market_price)
    /\ LeD(market_price, ModelPrice(FromFix[BisectHigh]))

\* C11 as stated: whenever implied_vol passes input validation and
\* Newton-Raphson does not return, the bisection over [1e-6, 5.0] converges,
\* so the call never ends in the convergence error.
C11_BisectionAlwaysConverges ==
    (market_price[1] > 0 /\ DaysLeft > 0 /\ NewtonGaveUp) => ~(Raised /\ err = ErrNotConverged)

\* the observed price is farther than the tolerance from every model price
\* of the bracket: above the price at sigma = 5.0 or below the price at
\* sigma = 1e-6 by more than tol
OutOfReach ==
    \/ LtD(AddD[ModelPrice(FromFix[BisectHigh]), tol], market_price)
    \/ LtD(market_price, SubD[ModelPrice(FromFix[BisectLow]), tol])

\* C11 amended: the bisection is not guaranteed to converge. When
\* Newton-Raphson does not return, what the bisection returns is a sigma of
\* the bracket whose model price is within tol of the observed price, and
\* it returns one whenever the observed price lies between the model prices
\* at sigma = 1e-6 and sigma = 5.0 and tol is the default 1e-6 or larger.
\* The call ends in the convergence error when the observed price is out of
\* reach by more than tol, and, whatever the price, when tol <= 0: no call
\* returns under such a tolerance.
C11_ConvergesWhenAttainable ==
    /\ (pc = "returned" /\ DaysLeft > 0) => tol[1] > 0
    /\ (market_price[1] > 0 /\ DaysLeft > 0 /\ NewtonGaveUp) =>
        /\ pc = "returned" =>
             /\ LeD(FromFix[BisectLow], ret.value) /\ LeD(ret.value, FromFix[BisectHigh])
             /\ LtD(AbsD[ModelDiff(ret.value)], tol)
             /\ ~OutOfReach
        /\ (Raised /\ market.spot > 0) =>
             /\ err = ErrNotConverged /\ iter = BisectIters
             /\ LeD(FromFix[DefaultTol], tol) => ~Attainable

\* Newton-Raphson ran out of iterations and the bisection found the sigma
C11_Witness ==
    /\ pc = "returned" /\ NewtonGaveUp /\ Attainable
    /\ max_iter = SmallMaxIter /\ n_greeks = SmallMaxIter
    /\ iter > 0 /\ LtD(FromFix[BisectLow], low)
\* ------------------------------------------------------------------------
\* Scenario evaluators: inputs explored
\* ------------------------------------------------------------------------
NearExpiry == ExpiryDay \div 4

FarCall == OptionContract("call", Fix(180), ExpiryDay, SCALE)
NearPut == OptionContract("put", Fix(200), NearExpiry, SCALE)

\* a call spread that expires within the horizon, both strikes far below the
\* spot: long the 10 call, short the 95.4 call. On every path it is worth
\* (ST - 10) - (ST - 95.4), and for a spot between 159.4 and 223.4 both
\* differences and their difference are exact in doubles, so every path has
\* the value 85.4 whatever is drawn.
LowCall == OptionContract("call", Fix(10), 7, SCALE)
HighCall == OptionContract("call", Fix(95) + 400000, 7, SCALE)
CallSpread == <<Position(LowCall, SCALE), Position(HighCall, -SCALE)>>

ScenarioPositionLists ==
    {<< >>,
     <<Position(FarCall, 2 * SCALE)>>,
     <<Position(NearPut, -SCALE)>>,
     <<Position(FarCall, 2 * SCALE), Position(NearPut, -SCALE)>>,
     CallSpread}

\* a snapshot carries any float as its spot: nothing validates it
ScenarioMarkets ==
    {MarketSnapshot(Fix(185), 30000, 5000, v, "2026-01-22") : v \in {0, 250000}}
        \cup {MarketSnapshot(s, 30000, 5000, 250000, "2026-01-22") : s \in {0, Fix(-5)}}

\* the states the process-wide generator is found in
RngStates == {0, 5}

InitScenario ==
    /\ option = FarCall
    /\ market \in ScenarioMarkets
    /\ today \in {0, NearExpiry}
    /\ positions \in ScenarioPositionLists
    /\ pc = "ready"
    /\ ret = NoRet
    /\ err = NoErr
    /\ SolverIdle
    /\ args = NoArgs
    /\ results = << >>
    /\ rng \in {RngAt(s) : s \in RngStates}
    /\ NoCalls

\* math.log(S / K) in price and greeks raises ValueError for S <= 0; it is
\* reached only past the expiry guard and the zero-volatility guard
MathDomainError(opt, m, t) ==
    /\ YearFrac(opt, t) > 0
    /\ m.volatility > 0
    /\ m.spot <= 0

\* portfolio_price and portfolio_greeks walk the positions in order and
\* let the first error through
PortfolioRaises(ps, m, t) ==
    \E i \in 1..Len(ps) : MathDomainError(ps[i].contract, m, t)

\* the frame of one step of an evaluator's loop
LoopFrame == UNCHANGED <<inputVars, solverInputs, sigma, low, high, args, rng, callVars>>

\* the frame of the start of a call
StartFrame == UNCHANGED <<inputVars, solverInputs, sigma, low, high, ret, err, rng, callVars>>

\* ------------------------------------------------------------------------
\* crash_scenario
\* ------------------------------------------------------------------------
MaxCrashes == 2
CrashFractions == {-SCALE, -500000, -250000, 0, 100000}
CrashLists == UNION {[1..n -> CrashFractions] : n \in 0..MaxCrashes}

ErrCrash ==
    [kind |-> "ValueError",
     msg |-> "Crash percentages must be negative (e.g. -0.25 for -25%)"]

\* if c >= 0: raise
CrashInvalid(c) == c >= 0

\* shocked_spot = market.spot * (1.0 + c)
ShockedSpot(m, c) == MulFix(m.spot, SCALE + c)

\* shocked_market: the spot replaced, every other field copied
ShockedMarket(m, c) ==
    MarketSnapshot(ShockedSpot(m, c), m.rate, m.dividend_yield, m.volatility, m.timestamp)

CrashRecord(c, spot, value, g) ==
    [crash_pct |-> c, spot |-> spot, value |-> value, delta |-> g.delta,
     gamma |-> g.gamma, vega |-> g.vega, theta |-> g.theta, rho |-> g.rho]

CrashStart ==
    /\ pc = "ready"
    /\ \E cs \in CrashLists : args' = [fn |-> "crash_scenario", crashes |-> cs]
    /\ results' = << >>
    /\ iter' = 0 /\ n_price' = 0 /\ n_greeks' = 0
    /\ pc' = "crash_loop"
    /\ StartFrame

\* the fraction the loop is at
CrashAt == args.crashes[iter + 1]

CrashStep ==
    /\ pc = "crash_loop"
    /\ iter < Len(args.crashes)
    /\ IF CrashInvalid(CrashAt)
       THEN
         /\ err' = ErrCrash
         /\ pc' = "raised"
         /\ UNCHANGED <<ret, results, iter, n_price, n_greeks>>
       ELSE IF PortfolioRaises(positions, ShockedMarket(market, CrashAt), today)
       THEN
         /\ n_price' = n_price + 1
         /\ err' = ErrMathDomain
         /\ pc' = "raised"
         /\ UNCHANGED <<ret, results, iter, n_greeks>>
       ELSE
         /\ results' = Append(results,
                              CrashRecord(CrashAt, ShockedSpot(market, CrashAt),
                                          portfolio_price(positions, ShockedMarket(market, CrashAt), today),
                                          portfolio_greeks(positions, ShockedMarket(market, CrashAt), today)))
         /\ iter' = iter + 1
         /\ n_price' = n_price + 1
         /\ n_greeks' = n_greeks + 1
         /\ UNCHANGED <<pc, ret, err>>
    /\ LoopFrame

CrashReturn ==
    /\ pc = "crash_loop"
    /\ iter = Len(args.crashes)
    /\ ret' = [op |-> "crash_scenario", value |-> results]
    /\ pc' = "done"
    /\ UNCHANGED <<err, results, iter, n_price, n_greeks>>
    /\ LoopFrame

\* ------------------------------------------------------------------------
\* spot_scenario, vol_scenario, time_scenario
\* ------------------------------------------------------------------------
SpotGrids ==
    {<< >>, <<Fix(185)>>, <<Fix(200), Fix(100)>>, <<Fix(100), Fix(100)>>, <<Fix(150), 0>>}
VolGrids ==
    {<< >>, <<250000>>, <<400000, 100000>>, <<250000, 250000>>, <<0, 250000>>}
DayGrids ==
    {<< >>, <<10>>, <<200, 10>>, <<40, 40>>, <<0, 150>>}

\* the market of one grid point: spot s and volatility v, the rest copied
GridMarket(m, s, v, ts) == MarketSnapshot(s, m.rate, m.dividend_yield, v, ts)

\* {"spot": s, "value": ..., **portfolio_greeks(...)}
SpotRecord(s, value, g) ==
    [spot |-> s, value |-> value, delta |-> g.delta,
     gamma |-> g.gamma, vega |-> g.vega, theta |-> g.theta, rho |-> g.rho]

\* {"volatility": v, "value": ..., **portfolio_greeks(...)}
VolRecord(v, value, g) ==
    [volatility |-> v, value |-> value, delta |-> g.delta,
     gamma |-> g.gamma, vega |-> g.vega, theta |-> g.theta, rho |-> g.rho]

\* {"days_forward": d, "date": t, "value": ..., **portfolio_greeks(...)}
TimeRecord(d, t, value, g) ==
    [days_forward |-> d, date |-> t, value |-> value, delta |-> g.delta,
     gamma |-> g.gamma, vega |-> g.vega, theta |-> g.theta, rho |-> g.rho]

SpotStart ==
    /\ pc = "ready"
    /\ \E g \in SpotGrids : args' = [fn |-> "spot_scenario", spots |-> g]
    /\ results' = << >>
    /\ iter' = 0 /\ n_price' = 0 /\ n_greeks' = 0
    /\ pc' = "spot_loop"
    /\ StartFrame

\* the market the loop is at
SpotAt == GridMarket(market, args.spots[iter + 1], market.volatility, market.timestamp)

SpotStep ==
    /\ pc = "spot_loop"
    /\ iter < Len(args.spots)
    /\ IF PortfolioRaises(positions, SpotAt, today)
       THEN
         /\ n_price' = n_price + 1
         /\ err' = ErrMathDomain
         /\ pc' = "raised"
         /\ UNCHANGED <<ret, results, iter, n_greeks>>
       ELSE
         /\ results' = Append(results,
                              SpotRecord(args.spots[iter + 1],
                                         portfolio_price(positions, SpotAt, today),
                                         portfolio_greeks(positions, SpotAt, today)))
         /\ iter' = iter + 1
         /\ n_price' = n_price + 1
         /\ n_greeks' = n_greeks + 1
         /\ UNCHANGED <<pc, ret, err>>
    /\ LoopFrame

SpotReturn ==
    /\ pc = "spot_loop"
    /\ iter = Len(args.spots)
    /\ ret' = [op |-> "spot_scenario", value |-> results]
    /\ pc' = "done"
    /\ UNCHANGED <<err, results, iter, n_price, n_greeks>>
    /\ LoopFrame

VolStart ==
    /\ pc = "ready"
    /\ \E g \in VolGrids : args' = [fn |-> "vol_scenario", vols |-> g]
    /\ results' = << >>
    /\ iter' = 0 /\ n_price' = 0 /\ n_greeks' = 0
    /\ pc' = "vol_loop"
    /\ StartFrame

VolAt == GridMarket(market, market.spot, args.vols[iter + 1], market.timestamp)

VolStep ==
    /\ pc = "vol_loop"
    /\ iter < Len(args.vols)
    /\ IF PortfolioRaises(positions, VolAt, today)
       THEN
         /\ n_price' = n_price + 1
         /\ err' = ErrMathDomain
         /\ pc' = "raised"
         /\ UNCHANGED <<ret, results, iter, n_greeks>>
       ELSE
         /\ results' = Append(results,
                              VolRecord(args.vols[iter + 1],
                                        portfolio_price(positions, VolAt, today),
                                        portfolio_greeks(positions, VolAt, today)))
         /\ iter' = iter + 1
         /\ n_price' = n_price + 1
         /\ n_greeks' = n_greeks + 1
         /\ UNCHANGED <<pc, ret, err>>
    /\ LoopFrame

VolReturn ==
    /\ pc = "vol_loop"
    /\ iter = Len(args.vols)
    /\ ret' = [op |-> "vol_scenario", value |-> results]
    /\ pc' = "done"
    /\ UNCHANGED <<err, results, iter, n_price, n_greeks>>
    /\ LoopFrame

TimeStart ==
    /\ pc = "ready"
    /\ \E g \in DayGrids : args' = [fn |-> "time_scenario", days_forward |-> g]
    /\ results' = << >>
    /\ iter' = 0 /\ n_price' = 0 /\ n_greeks' = 0
    /\ pc' = "time_loop"
    /\ StartFrame

\* mutant: the valuation date is not moved
TimeAt_NoShift == today

\* t = today + timedelta(days=d)
TimeAt == today + args.days_forward[iter + 1]

TimeStep ==
    /\ pc = "time_loop"
    /\ iter < Len(args.days_forward)
    /\ IF PortfolioRaises(positions, market, TimeAt)
       THEN
         /\ n_price' = n_price + 1
         /\ err' = ErrMathDomain
         /\ pc' = "raised"
         /\ UNCHANGED <<ret, results, iter, n_greeks>>
       ELSE
         /\ results' = Append(results,
                              TimeRecord(args.days_forward[iter + 1], TimeAt,
                                         portfolio_price(positions, market, TimeAt),
                                         portfolio_greeks(positions, market, TimeAt)))
         /\ iter' = iter + 1
         /\ n_price' = n_price + 1
         /\ n_greeks' = n_greeks + 1
         /\ UNCHANGED <<pc, ret, err>>
    /\ LoopFrame

TimeReturn ==
    /\ pc = "time_loop"
    /\ iter = Len(args.days_forward)
    /\ ret' = [op |-> "time_scenario", value |-> results]
    /\ pc' = "done"
    /\ UNCHANGED <<err, results, iter, n_price, n_greeks>>
    /\ LoopFrame

\* ------------------------------------------------------------------------
\* spot_vol_surface, spot_time_surface
\* ------------------------------------------------------------------------
SurfaceSpots == {<< >>, <<Fix(185)>>, <<Fix(200), Fix(100)>>, <<0>>}
SurfaceVols == {<< >>, <<250000>>, <<400000, 0>>}
SurfaceDays == {<< >>, <<10>>, <<200, 10>>}

\* The nested loops visit the cells row by row; `results` holds the cells
\* visited so far in that order, and the rows are cut from it on return.
CellRow(k, ncols) == (k \div ncols) + 1
CellCol(k, ncols) == (k % ncols) + 1
NumCells(rows, cols) == Len(rows) * Len(cols)

\* row i of a metric: [metric at (spots[i], second[j]) for j]
GridRow(cells, metric, i, ncols) ==
    [j \in 1..ncols |-> cells[(i - 1) * ncols + j][metric]]

\* one row per spot, appended as the outer loop ends its turn
Grid(cells, metric, nrows, ncols) ==
    [i \in 1..nrows |-> GridRow(cells, metric, i, ncols)]

SpotVolStart ==
    /\ pc = "ready"
    /\ \E s \in SurfaceSpots, v \in SurfaceVols :
         args' = [fn |-> "spot_vol_surface", spots |-> s, vols |-> v]
    /\ results' = << >>
    /\ iter' = 0 /\ n_price' = 0 /\ n_greeks' = 0
    /\ pc' = "spot_vol_loop"
    /\ StartFrame

\* mutant: the inner axis is walked from its end
SpotVolAt_InnerReversed ==
    GridMarket(market, args.spots[CellRow(iter, Len(args.vols))],
               args.vols[Len(args.vols) + 1 - CellCol(iter, Len(args.vols))], market.timestamp)

\* the market of the cell the loops are at
SpotVolAt ==
    GridMarket(market, args.spots[CellRow(iter, Len(args.vols))],
               args.vols[CellCol(iter, Len(args.vols))], market.timestamp)

SpotVolCell(value, g) ==
    [value |-> value, delta |-> g.delta, gamma |-> g.gamma, vega |-> g.vega]

SpotVolStep ==
    /\ pc = "spot_vol_loop"
    /\ iter < NumCells(args.spots, args.vols)
    /\ IF PortfolioRaises(positions, SpotVolAt, today)
       THEN
         /\ n_price' = n_price + 1
         /\ err' = ErrMathDomain
         /\ pc' = "raised"
         /\ UNCHANGED <<ret, results, iter, n_greeks>>
       ELSE
         /\ results' = Append(results,
                              SpotVolCell(portfolio_price(positions, SpotVolAt, today),
                                          portfolio_greeks(positions, SpotVolAt, today)))
         /\ iter' = iter + 1
         /\ n_price' = n_price + 1
         /\ n_greeks' = n_greeks + 1
         /\ UNCHANGED <<pc, ret, err>>
    /\ LoopFrame

SpotVolReturn ==
    /\ pc = "spot_vol_loop"
    /\ iter = NumCells(args.spots, args.vols)
    /\ ret' = [op |-> "spot_vol_surface",
               value |-> [spots |-> args.spots,
                          vols |-> args.vols,
                          value |-> Grid(results, "value", Len(args.spots), Len(args.vols)),
                          delta |-> Grid(results, "delta", Len(args.spots), Len(args.vols)),
                          gamma |-> Grid(results, "gamma", Len(args.spots), Len(args.vols)),
                          vega |-> Grid(results, "vega", Len(args.spots), Len(args.vols))]]
    /\ pc' = "done"
    /\ UNCHANGED <<err, results, iter, n_price, n_greeks>>
    /\ LoopFrame

SpotTimeStart ==
    /\ pc = "ready"
    /\ \E s \in SurfaceSpots, d \in SurfaceDays :
         args' = [fn |-> "spot_time_surface", spots |-> s, days_forward |-> d]
    /\ results' = << >>
    /\ iter' = 0 /\ n_price' = 0 /\ n_greeks' = 0
    /\ pc' = "spot_time_loop"
    /\ StartFrame

\* future_date = today + timedelta(days=d)
FutureDate == today + args.days_forward[CellCol(iter, Len(args.days_forward))]

\* the timestamp of the cell's market is the future date
SpotTimeAt ==
    GridMarket(market, args.spots[CellRow(iter, Len(args.days_forward))],
               market.volatility, FutureDate)

SpotTimeCell(value, g) ==
    [value |-> value, delta |-> g.delta, gamma |-> g.gamma, theta |-> g.theta]

SpotTimeStep ==
    /\ pc = "spot_time_loop"
    /\ iter < NumCells(args.spots, args.days_forward)
    /\ IF PortfolioRaises(positions, SpotTimeAt, FutureDate)
       THEN
         /\ n_price' = n_price + 1
         /\ err' = ErrMathDomain
         /\ pc' = "raised"
         /\ UNCHANGED <<ret, results, iter, n_greeks>>
       ELSE
         /\ results' = Append(results,
                              SpotTimeCell(portfolio_price(positions, SpotTimeAt, FutureDate),
                                           portfolio_greeks(positions, SpotTimeAt, FutureDate)))
         /\ iter' = iter + 1
         /\ n_price' = n_price + 1
         /\ n_greeks' = n_greeks + 1
         /\ UNCHANGED <<pc, ret, err>>
    /\ LoopFrame

SpotTimeReturn ==
    /\ pc = "spot_time_loop"
    /\ iter = NumCells(args.spots, args.days_forward)
    /\ ret' = [op |-> "spot_time_surface",
               value |-> [spots |-> args.spots,
                          days_forward |-> args.days_forward,
                          value |-> Grid(results, "value", Len(args.spots), Len(args.days_forward)),
                          delta |-> Grid(results, "delta", Len(args.spots), Len(args.days_forward)),
                          gamma |-> Grid(results, "gamma", Len(args.spots), Len(args.days_forward)),
                          theta |-> Grid(results, "theta", Len(args.spots), Len(args.days_forward))]]
    /\ pc' = "done"
    /\ UNCHANGED <<err, results, iter, n_price, n_greeks>>
    /\ LoopFrame

\* ------------------------------------------------------------------------
\* payoff_scenario
\* ------------------------------------------------------------------------
PayoffConfig(expiry_date, spots, include_value_today, include_greeks_today) ==
    [expiry_date |-> expiry_date, spots |-> spots,
     include_value_today |-> include_value_today,
     include_greeks_today |-> include_greeks_today]

PayoffGrids ==
    {<< >>, <<Fix(185)>>, <<Fix(200), Fix(100)>>, <<Fix(200), Fix(100), Fix(200)>>,
     <<0>>, <<Fix(150), -Fix(5)>>}

PayoffConfigs ==
    {PayoffConfig(e, g, v, k) :
        e \in {NearExpiry, ExpiryDay}, g \in PayoffGrids, v \in BOOLEAN, k \in BOOLEAN}

ErrEmptySpots ==
    [kind |-> "ValueError", msg |-> "config.spots must be a non-empty list of spot values"]

\* sorted(): insertion of x into a sorted sequence, after its equals
RECURSIVE InsertSorted(_, _)
InsertSorted(x, s) ==
    IF s = << >> THEN <<x>>
    ELSE IF x < Head(s) THEN <<x>> \o s
    ELSE <<Head(s)>> \o InsertSorted(x, Tail(s))

RECURSIVE SortFirst(_, _)
SortFirst(s, n) ==
    IF n = 0 THEN << >>
    ELSE InsertSorted(s[n], SortFirst(s, n - 1))

\* mutant: the grid is used as given
Sorted_AsGiven(s) == s

\* spots = sorted(float(s) for s in config.spots)
Sorted(s) == SortFirst(s, Len(s))

\* sorted() builds a new list: the config the caller passed is not written to
ConfigAfterSort(config) == config

\* if not config.spots
GridMissing(spots) == spots = << >>

PayoffStart ==
    /\ pc = "ready"
    /\ \E c \in PayoffConfigs : args' = [fn |-> "payoff_scenario", config |-> c]
    /\ results' = << >>
    /\ iter' = 0 /\ n_price' = 0 /\ n_greeks' = 0
    /\ pc' = "payoff_entry"
    /\ StartFrame

\* the empty grid is rejected; any other grid is sorted into a new list
PayoffEnter ==
    /\ pc = "payoff_entry"
    /\ IF GridMissing(args.config.spots)
       THEN
         /\ err' = ErrEmptySpots
         /\ pc' = "raised"
         /\ UNCHANGED <<results, args>>
       ELSE
         /\ results' = [spots |-> Sorted(args.config.spots), payoff_at_expiry |-> << >>,
                        value_today |-> << >>, greeks_today |-> << >>]
         /\ args' = [args EXCEPT !.config = ConfigAfterSort(args.config)]
         /\ pc' = "payoff_loop"
         /\ UNCHANGED err
    /\ UNCHANGED <<inputVars, solverInputs, sigma, low, high, ret, iter, n_price, n_greeks, rng,
                   callVars>>

\* m_exp: the grid spot, timestamp str(config.expiry_date)
MarketAtExpiry ==
    GridMarket(market, results.spots[iter + 1], market.volatility, args.config.expiry_date)

\* m_today: the grid spot, timestamp str(today)
MarketToday == GridMarket(market, results.spots[iter + 1], market.volatility, today)

PayoffStep ==
    /\ pc = "payoff_loop"
    /\ iter < Len(results.spots)
    /\ IF PortfolioRaises(positions, MarketAtExpiry, args.config.expiry_date)
       THEN
         /\ n_price' = n_price + 1
         /\ err' = ErrMathDomain
         /\ pc' = "raised"
         /\ UNCHANGED <<ret, results, iter, n_greeks>>
       ELSE
         /\ results' = [results EXCEPT !.payoff_at_expiry =
                          Append(@, portfolio_price(positions, MarketAtExpiry, args.config.expiry_date))]
         /\ iter' = iter + 1
         /\ n_price' = n_price + 1
         /\ UNCHANGED <<pc, ret, err, n_greeks>>
    /\ LoopFrame

\* the payoff loop is over: on to the optional curves
PayoffNext ==
    /\ pc = "payoff_loop"
    /\ iter = Len(results.spots)
    /\ iter' = 0
    /\ pc' = "value_today_loop"
    /\ UNCHANGED <<ret, err, results, n_price, n_greeks>>
    /\ LoopFrame

ValueTodayStep ==
    /\ pc = "value_today_loop"
    /\ args.config.include_value_today
    /\ iter < Len(results.spots)
    /\ IF PortfolioRaises(positions, MarketToday, today)
       THEN
         /\ n_price' = n_price + 1
         /\ err' = ErrMathDomain
         /\ pc' = "raised"
         /\ UNCHANGED <<ret, results, iter, n_greeks>>
       ELSE
         /\ results' = [results EXCEPT !.value_today =
                          Append(@, portfolio_price(positions, MarketToday, today))]
         /\ iter' = iter + 1
         /\ n_price' = n_price + 1
         /\ UNCHANGED <<pc, ret, err, n_greeks>>
    /\ LoopFrame

\* the value curve is over, or was not asked for
ValueTodayNext ==
    /\ pc = "value_today_loop"
    /\ (~args.config.include_value_today \/ iter = Len(results.spots))
    /\ iter' = 0
    /\ pc' = "greeks_today_loop"
    /\ UNCHANGED <<ret, err, results, n_price, n_greeks>>
    /\ LoopFrame

GreeksTodayStep ==
    /\ pc = "greeks_today_loop"
    /\ args.config.include_greeks_today
    /\ iter < Len(results.spots)
    /\ IF PortfolioRaises(positions, MarketToday, today)
       THEN
         /\ n_greeks' = n_greeks + 1
         /\ err' = ErrMathDomain
         /\ pc' = "raised"
         /\ UNCHANGED <<ret, results, iter, n_price>>
       ELSE
         /\ results' = [results EXCEPT !.greeks_today =
                          Append(@, portfolio_greeks(positions, MarketToday, today))]
         /\ iter' = iter + 1
         /\ n_greeks' = n_greeks + 1
         /\ UNCHANGED <<pc, ret, err, n_price>>
    /\ LoopFrame

\* metadata: the dates and the assumptions, copied from the arguments
PayoffMetadata ==
    [today |-> today, expiry_date |-> args.config.expiry_date,
     assumptions |-> [rate |-> market.rate, dividend_yield |-> market.dividend_yield,
                      volatility |-> market.volatility, vol_model |-> "flat"]]

\* result["greeks_today"]: one list per greek, along the grid
GreekCurves(gs) == [k \in GreekNames |-> [i \in 1..Len(gs) |-> gs[i][k]]]

\* the keys value_today and greeks_today are set only under their flags
PayoffResult ==
    IF args.config.include_value_today /\ args.config.include_greeks_today
    THEN [spots |-> results.spots, payoff_at_expiry |-> results.payoff_at_expiry,
          metadata |-> PayoffMetadata, value_today |-> results.value_today,
          greeks_today |-> GreekCurves(results.greeks_today)]
    ELSE IF args.config.include_value_today
    THEN [spots |-> results.spots, payoff_at_expiry |-> results.payoff_at_expiry,
          metadata |-> PayoffMetadata, value_today |-> results.value_today]
    ELSE IF args.config.include_greeks_today
    THEN [spots |-> results.spots, payoff_at_expiry |-> results.payoff_at_expiry,
          metadata |-> PayoffMetadata,
          greeks_today |-> GreekCurves(results.greeks_today)]
    ELSE [spots |-> results.spots, payoff_at_expiry |-> results.payoff_at_expiry,
          metadata |-> PayoffMetadata]

PayoffReturn ==
    /\ pc = "greeks_today_loop"
    /\ (~args.config.include_greeks_today \/ iter = Len(results.spots))
    /\ ret' = [op |-> "payoff_scenario", value |-> PayoffResult]
    /\ pc' = "done"
    /\ UNCHANGED <<err, results, iter, n_price, n_greeks>>
    /\ LoopFrame

\* ------------------------------------------------------------------------
\* make_spot_grid
\* ------------------------------------------------------------------------
MaxGridPoints == 4
DefaultMinSpot == 10000

GridCenters == {0, Fix(100), Fix(185)}
GridRanges == {0, 500000, 1500000}
GridMinSpots == {DefaultMinSpot, Fix(150), Fix(300)}

ErrSpotCenter == [kind |-> "ValueError", msg |-> "spot_center must be > 0"]
ErrPctRange == [kind |-> "ValueError", msg |-> "pct_range must be > 0"]
ErrGridPoints == [kind |-> "ValueError", msg |-> "n must be >= 2"]

\* lo = max(min_spot, spot_center * (1.0 - pct_range))
GridLo(spot_center, pct_range, min_spot) ==
    Max(min_spot, MulFix(spot_center, SCALE - pct_range))

\* hi = spot_center * (1.0 + pct_range)
GridHi(spot_center, pct_range) == MulFix(spot_center, SCALE + pct_range)

\* step = (hi - lo) / (n - 1)
GridStep(lo, hi, n) == DivInt(hi - lo, n - 1)

\* [lo + i * step for i in range(n)]
GridPoints(lo, step, n) == [i \in 1..n |-> lo + (i - 1) * step]

make_spot_grid(spot_center, pct_range, n, min_spot) ==
    GridPoints(GridLo(spot_center, pct_range, min_spot),
               GridStep(GridLo(spot_center, pct_range, min_spot),
                        GridHi(spot_center, pct_range), n),
               n)

MakeGridStart ==
    /\ pc = "ready"
    /\ \E c \in GridCenters, p \in GridRanges, n \in 1..MaxGridPoints, m \in GridMinSpots :
         args' = [fn |-> "make_spot_grid", spot_center |-> c, pct_range |-> p,
                  n |-> n, min_spot |-> m]
    /\ results' = << >>
    /\ iter' = 0 /\ n_price' = 0 /\ n_greeks' = 0
    /\ pc' = "grid_entry"
    /\ StartFrame

\* the three checks, in the order the code makes them
GridError(spot_center, pct_range, n) ==
    IF spot_center <= 0 THEN ErrSpotCenter
    ELSE IF pct_range <= 0 THEN ErrPctRange
    ELSE IF n < 2 THEN ErrGridPoints
    ELSE NoErr

MakeGridRun ==
    /\ pc = "grid_entry"
    /\ IF GridError(args.spot_center, args.pct_range, args.n) # NoErr
       THEN
         /\ err' = GridError(args.spot_center, args.pct_range, args.n)
         /\ pc' = "raised"
         /\ UNCHANGED ret
       ELSE
         /\ ret' = [op |-> "make_spot_grid",
                    value |-> make_spot_grid(args.spot_center, args.pct_range,
                                             args.n, args.min_spot)]
         /\ pc' = "done"
         /\ UNCHANGED err
    /\ UNCHANGED <<results, iter, n_price, n_greeks>>
    /\ LoopFrame

\* ------------------------------------------------------------------------
\* IEEE doubles, bit for bit, for the sums np.mean forms
\* ------------------------------------------------------------------------
\* A natural number of any size is its sequence of limbs, lowest first,
\* without a leading zero limb; zero is the empty sequence.
Limb == 2 ^ 11

\* the limbs of a natural number that fits a machine word
RECURSIVE BigOf(_)
BigOf(n) == IF n = 0 THEN << >> ELSE <<n % Limb>> \o BigOf(n \div Limb)

\* drop the zero limbs at the top
RECURSIVE BigStrip(_)
BigStrip(x) ==
    IF x = << >> \/ x[Len(x)] # 0 THEN x ELSE BigStrip(SubSeq(x, 1, Len(x) - 1))

\* x + y + carry
RECURSIVE BigAddC(_, _, _)
BigAddC(x, y, c) ==
    IF x = << >> /\ y = << >> THEN (IF c = 0 THEN << >> ELSE <<c>>)
    ELSE LET a == IF x = << >> THEN 0 ELSE Head(x)
             b == IF y = << >> THEN 0 ELSE Head(y)
         IN  <<(a + b + c) % Limb>>
                 \o BigAddC(IF x = << >> THEN x ELSE Tail(x),
                            IF y = << >> THEN y ELSE Tail(y), (a + b + c) \div Limb)

BigAdd(x, y) == BigAddC(x, y, 0)

\* x - y - borrow for x >= y, before the zero limbs at the top are dropped
RECURSIVE BigSubB(_, _, _)
BigSubB(x, y, b) ==
    IF x = << >> THEN << >>
    ELSE LET d == Head(x) - (IF y = << >> THEN 0 ELSE Head(y)) - b
         IN  <<d % Limb>>
                 \o BigSubB(Tail(x), IF y = << >> THEN y ELSE Tail(y),
                            IF d < 0 THEN 1 ELSE 0)

BigSub(x, y) == BigStrip(BigSubB(x, y, 0))

\* x < y, decided from the top limb down
RECURSIVE BigLessFrom(_, _, _)
BigLessFrom(x, y, i) ==
    IF i = 0 THEN FALSE
    ELSE IF x[i] # y[i] THEN x[i] < y[i]
    ELSE BigLessFrom(x, y, i - 1)

BigLess(x, y) ==
    IF Len(x) # Len(y) THEN Len(x) < Len(y) ELSE BigLessFrom(x, y, Len(x))

\* x * m + carry for a factor m of at most one limb
RECURSIVE BigMulC(_, _, _)
BigMulC(x, m, c) ==
    IF x = << >> THEN (IF c = 0 THEN << >> ELSE <<c>>)
    ELSE <<(Head(x) * m + c) % Limb>> \o BigMulC(Tail(x), m, (Head(x) * m + c) \div Limb)

\* k zero limbs
ZeroLimbs(k) == [i \in 1..k |-> 0]

\* x * 2 ** k
BigShl(x, k) ==
    IF x = << >> THEN x
    ELSE ZeroLimbs(k \div 11) \o BigMulC(x, 2 ^ (k % 11), 0)

\* long division by a divisor d < 10 ** 6 from limb i down: the quotient
\* limbs found so far are q, the running remainder is r
RECURSIVE BigDivFrom(_, _, _, _, _)
BigDivFrom(x, d, i, q, r) ==
    IF i = 0 THEN <<BigStrip(q), r>>
    ELSE BigDivFrom(x, d, i - 1, <<(r * Limb + x[i]) \div d>> \o q, (r * Limb + x[i]) % d)

\* <<x // d, x % d>>
BigDivMod(x, d) == BigDivFrom(x, d, Len(x), << >>, 0)

\* the number of bits of a limb, and of a number
RECURSIVE LimbBits(_)
LimbBits(a) == IF a = 0 THEN 0 ELSE 1 + LimbBits(a \div 2)

BitLength(x) == IF x = << >> THEN 0 ELSE 11 * (Len(x) - 1) + LimbBits(x[Len(x)])

\* some limb of x is not zero
NonZero(x) == \E i \in 1..Len(x) : x[i] # 0

\* <<x // 2 ** k, whether a one was shifted out>>
BigShr(x, k) ==
    LET whole == Min(k \div 11, Len(x))
        qr == BigDivMod(SubSeq(x, whole + 1, Len(x)), 2 ^ (k % 11))
    IN  <<qr[1], qr[2] # 0 \/ NonZero(SubSeq(x, 1, whole))>>

IsOdd(x) == x # << >> /\ x[1] % 2 = 1

\* 2 ** 53
TwoTo53 == BigShl(<<1>>, 53)

\* A double is <<s, e, m>>: the value s * m * 2 ** e with s the sign, m a
\* natural number of exactly 53 bits and e the exponent of its last bit;
\* 0.0 is <<0, 0, << >> >>. No value of the model is subnormal or infinite.
ZeroB == <<0, 0, << >> >>

\* the double nearest s * x * 2 ** e (ties to even), for a natural number x
\* of which 'inexact' says that a nonzero part below its last bit was cut off
RoundB(s, e, x, inexact) ==
    IF x = << >> THEN ZeroB
    ELSE IF BitLength(x) <= 53
    THEN <<s, e - (53 - BitLength(x)), BigShl(x, 53 - BitLength(x))>>
    ELSE LET k == BitLength(x) - 53
             t == BigShr(x, k - 1)
             m == BigShr(t[1], 1)[1]
             up == IsOdd(t[1]) /\ (t[2] \/ inexact \/ IsOdd(m))
             r == IF up THEN BigAdd(m, <<1>>) ELSE m
         IN  IF r = TwoTo53 THEN <<s, e + k + 1, BigShr(r, 1)[1]>>
             ELSE <<s, e + k, r>>

\* the double nearest the six-decimal number v / 10 ** 6: what the float
\* array holds for a value the model carries to six decimals
DoubleOf(v) ==
    LET qr == BigDivMod(BigShl(BigOf(Abs(v)), 77), SCALE)
    IN  RoundB(Sgn(v), -77, qr[1], qr[2] # 0)

\* x + y, rounded to the nearest double
AddB(x, y) ==
    IF x[1] = 0 THEN y
    ELSE IF y[1] = 0 THEN x
    ELSE LET e == Min(x[2], y[2])
             a == BigShl(x[3], x[2] - e)
             b == BigShl(y[3], y[2] - e)
         IN  IF x[1] = y[1] THEN RoundB(x[1], e, BigAdd(a, b), FALSE)
             ELSE IF BigLess(a, b) THEN RoundB(y[1], e, BigSub(b, a), FALSE)
             ELSE RoundB(x[1], e, BigSub(a, b), FALSE)

\* x / n for a count 0 < n < 2 ** 10, rounded to the nearest double
DivCountB(x, n) ==
    LET qr == BigDivMod(BigShl(x[3], 11), n)
    IN  IF x[1] = 0 THEN x ELSE RoundB(x[1], x[2] - 11, qr[1], qr[2] # 0)

\* float("nan"), which no double equals; a comparison with it is false in
\* the code
NaN == <<0, 1, << >> >>

\* x < y on doubles
LtB(x, y) ==
    IF x = NaN \/ y = NaN THEN FALSE
    ELSE IF x[1] # y[1] THEN x[1] < y[1]
    ELSE IF x[1] = 0 THEN FALSE
    ELSE IF x[2] # y[2] THEN (IF x[1] > 0 THEN x[2] < y[2] ELSE y[2] < x[2])
    ELSE IF x[1] > 0 THEN BigLess(x[3], y[3]) ELSE BigLess(y[3], x[3])

\* x <= y on doubles
LeB(x, y) == (x # NaN /\ x = y) \/ LtB(x, y)

\* ------------------------------------------------------------------------
\* monte_carlo_scenario
\* ------------------------------------------------------------------------
\* an Optional argument: None, or the value given
None == << >>
Some(v) == <<v>>
IsNone(x) == x = << >>
Given(x) == x[1]

\* numpy's process-wide generator, cut down to eight states: a state yields
\* one standard normal draw and moves on; seeding sets the state from the seed
Normals == <<-1500000, -900000, -500000, -150000, 150000, 500000, 900000, 1500000>>
RngModulus == Len(Normals)

\* np.random.seed(seed)
SeedState(seed) == seed % RngModulus

\* the state after k draws
StateAfter[s \in Nat, k \in Nat] ==
    IF k = 0 THEN s ELSE StateAfter[(5 * s + 3) % RngModulus, k - 1]

\* Z = np.random.standard_normal(n_sims), drawn from state s
Draws(s, n) == [i \in 1..n |-> Normals[StateAfter[s, i - 1] + 1]]

MaxSims == 3
HorizonDays == {0, 7}
VolOverrides == {None, Some(0), Some(400000)}
DriftOverrides == {None, Some(0)}
Seeds == {None, Some(7)}

ErrHorizon == [kind |-> "ValueError", msg |-> "horizon_days must be positive"]
ErrSims == [kind |-> "ValueError", msg |-> "n_sims must be positive"]
ErrVolatility == [kind |-> "ValueError", msg |-> "volatility must be positive"]

\* mutant: the override is honoured only when it is not zero
ResolvedVol_Truthy(vol, m) == IF IsNone(vol) \/ Given(vol) = 0 THEN m.volatility ELSE Given(vol)

\* sigma = vol if vol is not None else market.volatility
ResolvedVol(vol, m) == IF IsNone(vol) THEN m.volatility ELSE Given(vol)

\* mu = drift if drift is not None else (market.rate - market.dividend_yield)
ResolvedDrift(drift, m) == IF IsNone(drift) THEN m.rate - m.dividend_yield ELSE Given(drift)

\* T = horizon_days / 365.0
HorizonYears(horizon_days) == DivFix(horizon_days, DaysPerYear)

\* S0 * exp((mu - 0.5 * sigma ** 2) * T + sigma * sqrt(T) * Z)
TerminalSpot[S0, mu, vol, T, Z \in Int] ==
    MulFixF[S0, ExpFixF[MulFixF[mu - MulFixF[SCALE \div 2, MulFixF[vol, vol]], T]
                        + MulFixF[MulFixF[vol, SqrtFix(T)], Z]]]

TerminalSpots(m, mu, vol, T, Z) ==
    [i \in 1..Len(Z) |-> TerminalSpot[m.spot, mu, vol, T, Z[i]]]

RECURSIVE SumSeq(_)
SumSeq(s) == IF s = << >> THEN 0 ELSE Head(s) + SumSeq(Tail(s))

\* the running sum of np.add.reduce over fewer than eight doubles: from
\* 0.0, left to right, every addition rounded to the nearest double
RECURSIVE RunningSum(_, _)
RunningSum(s, acc) ==
    IF s = << >> THEN acc ELSE RunningSum(Tail(s), AddB(acc, DoubleOf(Head(s))))

\* np.mean: the running sum divided by the count, rounded once more. The
\* mean of three equal values x is fl(fl(3x) / 3), which for some x is the
\* double next above x.
Mean(s) == DivCountB(RunningSum(s, ZeroB), Len(s))

\* the sum of abs(x - mean) ** 2, as a double: a square can pass the
\* largest six-decimal number
RECURSIVE SquaredDeviations(_, _)
SquaredDeviations(s, mean) ==
    IF s = << >> THEN ZeroD
    ELSE AddD[SqD[FromFix[Head(s) - mean]], SquaredDeviations(Tail(s), mean)]

\* half a unit of the six decimals
HalfUnitD == <<1, -2, 50, 0, 0, 0>>

\* np.std: the population standard deviation, to the nearest six decimals,
\* of the deviations from the mean at six decimals
Std(s) ==
    ToFix[AddD[SqrtD[DivSmall[SquaredDeviations(s, DivInt(SumSeq(s), Len(s))), Len(s)]],
               HalfUnitD]]

\* the whole part and the fraction of the rank (n - 1) * q / 100
RankFix(n, q) == ((n - 1) * q * SCALE) \div 100

\* np.percentile(values, q), linear interpolation between the two order
\* statistics around the rank
PercentileOf[sorted \in Seq(Int), h \in Nat] ==
    IF (h \div SCALE) + 1 >= Len(sorted) THEN sorted[Len(sorted)]
    ELSE sorted[(h \div SCALE) + 1]
         + MulFix(h % SCALE, sorted[(h \div SCALE) + 2] - sorted[(h \div SCALE) + 1])

\* mutant: the rank is counted from the top of the sorted values
Percentile_FromTop(s, q) == PercentileOf[Sorted(s), RankFix(Len(s), 100 - q)]

Percentile(s, q) == PercentileOf[Sorted(s), RankFix(Len(s), q)]

Percentiles(s) ==
    [p01 |-> Percentile(s, 1), p05 |-> Percentile(s, 5), p10 |-> Percentile(s, 10),
     p25 |-> Percentile(s, 25), p50 |-> Percentile(s, 50), p75 |-> Percentile(s, 75),
     p90 |-> Percentile(s, 90), p95 |-> Percentile(s, 95), p99 |-> Percentile(s, 99)]

\* terminal_values[terminal_values <= bound]
RECURSIVE AtOrBelow(_, _)
AtOrBelow(s, bound) ==
    IF s = << >> THEN << >>
    ELSE IF Head(s) <= bound THEN <<Head(s)>> \o AtOrBelow(Tail(s), bound)
    ELSE AtOrBelow(Tail(s), bound)

\* np.mean of the tail; of an empty tail it is nan
TailMean(s, bound) ==
    IF AtOrBelow(s, bound) = << >> THEN NaN ELSE Mean(AtOrBelow(s, bound))

MCStart ==
    /\ pc = "ready"
    /\ \E h \in HorizonDays, n \in 0..MaxSims, v \in VolOverrides, d \in DriftOverrides,
          s \in Seeds, rs \in BOOLEAN :
         args' = [fn |-> "monte_carlo_scenario", horizon_days |-> h, n_sims |-> n,
                  vol |-> v, drift |-> d, seed |-> s, return_samples |-> rs]
    /\ results' = << >>
    /\ iter' = 0 /\ n_price' = 0 /\ n_greeks' = 0
    /\ pc' = "mc_entry"
    /\ StartFrame

\* the three checks, in the order the code makes them
MCError(horizon_days, n_sims, vol) ==
    IF horizon_days <= 0 THEN ErrHorizon
    ELSE IF n_sims <= 0 THEN ErrSims
    ELSE IF vol <= 0 THEN ErrVolatility
    ELSE NoErr

MCValid ==
    MCError(args.horizon_days, args.n_sims, ResolvedVol(args.vol, market)) = NoErr

MCReject ==
    /\ pc = "mc_entry"
    /\ ~MCValid
    /\ err' = MCError(args.horizon_days, args.n_sims, ResolvedVol(args.vol, market))
    /\ pc' = "raised"
    /\ UNCHANGED <<ret, results, iter, n_price, n_greeks>>
    /\ LoopFrame

\* if seed is not None: np.random.seed(seed)
MCSeed ==
    /\ pc = "mc_entry"
    /\ MCValid
    /\ ~IsNone(args.seed)
    /\ rng' = [rng EXCEPT !.state = SeedState(Given(args.seed)), !.seeds = @ + 1]
    /\ pc' = "mc_draw"
    /\ UNCHANGED <<inputVars, solverInputs, sigma, low, high, args, callVars,
                   ret, err, results, iter, n_price, n_greeks>>

MCNoSeed ==
    /\ pc = "mc_entry"
    /\ MCValid
    /\ IsNone(args.seed)
    /\ pc' = "mc_draw"
    /\ UNCHANGED <<ret, err, results, iter, n_price, n_greeks>>
    /\ LoopFrame

\* Z is drawn from the process-wide generator, and ST computed from it
MCDraw ==
    /\ pc = "mc_draw"
    /\ results' = [Z |-> Draws(rng.state, args.n_sims),
                   ST |-> TerminalSpots(market, ResolvedDrift(args.drift, market),
                                        ResolvedVol(args.vol, market),
                                        HorizonYears(args.horizon_days),
                                        Draws(rng.state, args.n_sims)),
                   terminal_values |-> << >>]
    /\ rng' = [rng EXCEPT !.state = StateAfter[rng.state, args.n_sims],
                          !.draws = @ + args.n_sims]
    /\ pc' = "mc_loop"
    /\ UNCHANGED <<inputVars, solverInputs, sigma, low, high, args, callVars,
                   ret, err, iter, n_price, n_greeks>>

\* horizon_date = today + timedelta(days=horizon_days)
HorizonDate == today + args.horizon_days

\* the market of path i: the simulated spot, the resolved volatility
PathMarket ==
    GridMarket(market, results.ST[iter + 1], ResolvedVol(args.vol, market), HorizonDate)

MCStep ==
    /\ pc = "mc_loop"
    /\ iter < args.n_sims
    /\ IF PortfolioRaises(positions, PathMarket, HorizonDate)
       THEN
         /\ n_price' = n_price + 1
         /\ err' = ErrMathDomain
         /\ pc' = "raised"
         /\ UNCHANGED <<ret, results, iter, n_greeks>>
       ELSE
         /\ results' = [results EXCEPT !.terminal_values =
                          Append(@, portfolio_price(positions, PathMarket, HorizonDate))]
         /\ iter' = iter + 1
         /\ n_price' = n_price + 1
         /\ UNCHANGED <<pc, ret, err, n_greeks>>
    /\ LoopFrame

MCAssumptionsOf(a) ==
    [model |-> "GBM", spot |-> market.spot,
     volatility |-> ResolvedVol(a.vol, market),
     drift |-> ResolvedDrift(a.drift, market),
     horizon_days |-> a.horizon_days, n_simulations |-> a.n_sims,
     risk_free_rate |-> market.rate, dividend_yield |-> market.dividend_yield]

MCAssumptions == MCAssumptionsOf(args)

\* var_95 = percentiles["p05"], var_99 = percentiles["p01"]
TailRisk(s) ==
    [var_95 |-> Percentile(s, 5), var_99 |-> Percentile(s, 1),
     cvar_95 |-> TailMean(s, Percentile(s, 5)),
     cvar_99 |-> TailMean(s, Percentile(s, 1))]

\* the dictionary returned for the arguments a and the terminal values tv.
\* The mean and the two CVaRs are the doubles np.mean returns; the standard
\* deviation, the percentiles, the VaRs and the samples are six-decimal
\* numbers (DoubleOf takes one to the double it stands for).
MCResultOf(a, tv) ==
    IF a.return_samples
    THEN [assumptions |-> MCAssumptionsOf(a),
          summary |-> [mean |-> Mean(tv), std |-> Std(tv)],
          percentiles |-> Percentiles(tv),
          tail_risk |-> TailRisk(tv),
          samples |-> tv]
    ELSE [assumptions |-> MCAssumptionsOf(a),
          summary |-> [mean |-> Mean(tv), std |-> Std(tv)],
          percentiles |-> Percentiles(tv),
          tail_risk |-> TailRisk(tv)]

MCResult == MCResultOf(args, results.terminal_values)

MCReturn ==
    /\ pc = "mc_loop"
    /\ iter = args.n_sims
    /\ ret' = [op |-> "monte_carlo_scenario", value |-> MCResult]
    /\ pc' = "done"
    /\ UNCHANGED <<err, results, iter, n_price, n_greeks>>
    /\ LoopFrame

\* ------------------------------------------------------------------------
\* monte_carlo_scenario called again and again: on one thread, one call
\* after the other, or by two threads at once. Every call seeds and draws
\* from numpy's process-wide generator (np.random.seed, then
\* np.random.standard_normal), which is all the calls share.
\*
\* Nothing in the repository starts a second thread. run_monte_carlo is a
\* plain def route, which a server runs on a thread pool, but main.py
\* includes the backtest router only, so the route is not served. The two
\* threads are the case the requirement on seeding is about; their
\* arguments are ones the request schema admits as well (n_sims > 0, seed
\* >= 0, no volatility override over a market of positive volatility), so
\* none of their calls is rejected.
\* ------------------------------------------------------------------------
MaxCalls == 3

CallSeeds == {None, Some(7), Some(4)}

\* the simulation counts of the calls made in sequence, zero (a call the
\* function rejects) among them, and of the calls made at once
SequenceSims == {0, 2}
ConcurrentSims == {2}

ArgsOver(sims) ==
    {[fn |-> "monte_carlo_scenario", horizon_days |-> 7, n_sims |-> n,
      vol |-> None, drift |-> None, seed |-> s, return_samples |-> FALSE] :
        n \in sims, s \in CallSeeds}

InitCalls ==
    /\ option = FarCall
    /\ market = MarketSnapshot(Fix(185), 30000, 5000, 250000, "2026-01-22")
    /\ today = 0
    /\ positions \in {<<Position(FarCall, 2 * SCALE)>>,
                      <<Position(FarCall, 2 * SCALE), Position(NearPut, -SCALE)>>}
    /\ pc = "ready" /\ ret = NoRet /\ err = NoErr
    /\ SolverIdle
    /\ args = NoArgs /\ results = << >>
    /\ rng \in {RngAt(s) : s \in RngStates}
    /\ NoCalls

\* the threads inside a call
Running == {w \in Threads : calls[w].pc \in {"mc_entry", "mc_draw", "mc_loop"}}

\* what a step of a thread leaves alone
ThreadFrame == UNCHANGED <<inputVars, solverInputs, solverVars, pc, ret, err, args, results>>

\* the value of the portfolio on one path, at the horizon date
PathValue(a, st) ==
    portfolio_price(positions,
                    GridMarket(market, st, ResolvedVol(a.vol, market), today + a.horizon_days),
                    today + a.horizon_days)

\* the valuation loop: terminal_values[i] for the draws Z
TerminalValues(a, Z) ==
    [i \in 1..Len(Z) |->
        PathValue(a, TerminalSpot[market.spot, ResolvedDrift(a.drift, market),
                                  ResolvedVol(a.vol, market),
                                  HorizonYears(a.horizon_days), Z[i]])]

\* portfolio_price raises on some path of the draws Z
PathRaises(a, Z) ==
    \E i \in 1..Len(Z) :
        PortfolioRaises(positions,
                        GridMarket(market,
                                   TerminalSpot[market.spot, ResolvedDrift(a.drift, market),
                                                ResolvedVol(a.vol, market),
                                                HorizonYears(a.horizon_days), Z[i]],
                                   ResolvedVol(a.vol, market), today + a.horizon_days),
                        today + a.horizon_days)

\* the entry of the log for the call a thread has just ended
Answered(w, c) ==
    [thread |-> w, args |-> c.args, found |-> c.found, Z |-> c.Z, ret |-> c.ret, err |-> c.err]

\* a thread outside a call enters monte_carlo_scenario, with a simulation
\* count of sims
ThreadEnter(w, sims) ==
    /\ calls[w].pc \in {"idle", "done", "raised"}
    /\ Len(log) + Cardinality(Running) < MaxCalls
    /\ \E a \in ArgsOver(sims) :
         calls' = [calls EXCEPT ![w] = [pc |-> "mc_entry", args |-> a, found |-> rng.state,
                                        Z |-> << >>, ret |-> NoRet, err |-> NoErr]]
    /\ UNCHANGED <<rng, log>>
    /\ ThreadFrame

\* one of the three checks fails
ThreadReject(w) ==
    /\ calls[w].pc = "mc_entry"
    /\ MCError(calls[w].args.horizon_days, calls[w].args.n_sims,
               ResolvedVol(calls[w].args.vol, market)) # NoErr
    /\ calls' = [calls EXCEPT ![w].pc = "raised",
                              ![w].err = MCError(calls[w].args.horizon_days,
                                                 calls[w].args.n_sims,
                                                 ResolvedVol(calls[w].args.vol, market))]
    /\ log' = Append(log, Answered(w, calls'[w]))
    /\ UNCHANGED rng
    /\ ThreadFrame

\* mutant: seeding stirs the seed into the state the generator is in
Reseeded_Stirred(state, seed) == (state + SeedState(seed)) % RngModulus

\* np.random.seed(seed) replaces the state of the generator
Reseeded(state, seed) == SeedState(seed)

\* if seed is not None: np.random.seed(seed)
ThreadSeed(w) ==
    /\ calls[w].pc = "mc_entry"
    /\ MCError(calls[w].args.horizon_days, calls[w].args.n_sims,
               ResolvedVol(calls[w].args.vol, market)) = NoErr
    /\ ~IsNone(calls[w].args.seed)
    /\ rng' = [rng EXCEPT !.state = Reseeded(rng.state, Given(calls[w].args.seed)),
                          !.seeds = @ + 1]
    /\ calls' = [calls EXCEPT ![w].pc = "mc_draw"]
    /\ UNCHANGED log
    /\ ThreadFrame

ThreadNoSeed(w) ==
    /\ calls[w].pc = "mc_entry"
    /\ MCError(calls[w].args.horizon_days, calls[w].args.n_sims,
               ResolvedVol(calls[w].args.vol, market)) = NoErr
    /\ IsNone(calls[w].args.seed)
    /\ calls' = [calls EXCEPT ![w].pc = "mc_draw"]
    /\ UNCHANGED <<rng, log>>
    /\ ThreadFrame

\* Z = np.random.standard_normal(n_sims), from the process-wide generator
ThreadDraw(w) ==
    /\ calls[w].pc = "mc_draw"
    /\ calls' = [calls EXCEPT ![w].pc = "mc_loop",
                              ![w].Z = Draws(rng.state, calls[w].args.n_sims)]
    /\ rng' = [rng EXCEPT !.state = StateAfter[rng.state, calls[w].args.n_sims],
                          !.draws = @ + calls[w].args.n_sims]
    /\ UNCHANGED log
    /\ ThreadFrame

\* the valuation loop and the statistics read the call's own Z only; the
\* call returns the result, or the error of a valuation leaves it
ThreadReturn(w) ==
    /\ calls[w].pc = "mc_loop"
    /\ IF PathRaises(calls[w].args, calls[w].Z)
       THEN calls' = [calls EXCEPT ![w].pc = "raised", ![w].err = ErrMathDomain]
       ELSE \E terminal_values \in {TerminalValues(calls[w].args, calls[w].Z)} :
              calls' = [calls EXCEPT ![w].pc = "done",
                                     ![w].ret = [op |-> "monte_carlo_scenario",
                                                 value |-> MCResultOf(calls[w].args,
                                                                      terminal_values)]]
    /\ log' = Append(log, Answered(w, calls'[w]))
    /\ UNCHANGED rng
    /\ ThreadFrame

\* two threads, whose steps interleave
NextConcurrent ==
    \/ \E w \in Threads : ThreadEnter(w, ConcurrentSims)
    \/ \E w \in Threads : ThreadSeed(w)
    \/ \E w \in Threads : ThreadNoSeed(w)
    \/ \E w \in Threads : ThreadDraw(w)
    \/ \E w \in Threads : ThreadReturn(w)

SpecConcurrent == InitCalls /\ [][NextConcurrent]_vars

\* one thread: each call ends before the next begins
NextSequence ==
    \/ ThreadEnter(1, SequenceSims)
    \/ ThreadReject(1)
    \/ ThreadSeed(1)
    \/ ThreadNoSeed(1)
    \/ ThreadDraw(1)
    \/ ThreadReturn(1)

SpecSequence == InitCalls /\ [][NextSequence]_vars
\* ------------------------------------------------------------------------
\* The scenario evaluators as one specification
\* ------------------------------------------------------------------------
NextScenario ==
    \/ CrashStart
    \/ CrashStep
    \/ CrashReturn
    \/ SpotStart
    \/ SpotStep
    \/ SpotReturn
    \/ VolStart
    \/ VolStep
    \/ VolReturn
    \/ TimeStart
    \/ TimeStep
    \/ TimeReturn
    \/ SpotVolStart
    \/ SpotVolStep
    \/ SpotVolReturn
    \/ SpotTimeStart
    \/ SpotTimeStep
    \/ SpotTimeReturn
    \/ PayoffStart
    \/ PayoffEnter
    \/ PayoffStep
    \/ PayoffNext
    \/ ValueTodayStep
    \/ ValueTodayNext
    \/ GreeksTodayStep
    \/ PayoffReturn
    \/ MakeGridStart
    \/ MakeGridRun
    \/ MCStart
    \/ MCReject
    \/ MCSeed
    \/ MCNoSeed
    \/ MCDraw
    \/ MCStep
    \/ MCReturn

SpecScenario == InitScenario /\ [][NextScenario]_vars

\* ------------------------------------------------------------------------
\* Properties of the scenario evaluators
\* ------------------------------------------------------------------------
\* the call of evaluator fn has ended, by a return or by an exception
Ended(fn) == args.fn = fn /\ pc \in {"done", "raised"}

HasNonNegative(cs) == \E i \in 1..Len(cs) : cs[i] >= 0
AllNegative(cs) == \A i \in 1..Len(cs) : cs[i] < 0

\* C12: crash_scenario fails with the validation error for crash fractions,
\* and returns no results, whenever the list holds a fraction >= 0, at
\* whatever index.
C12_RejectsAnyNonNegative ==
    (Ended("crash_scenario") /\ HasNonNegative(args.crashes)) =>
        (Raised /\ err = ErrCrash /\ ret = NoRet)

\* what does hold: such a call never returns, and fails with a ValueError
C12_NeverReturns ==
    (Ended("crash_scenario") /\ HasNonNegative(args.crashes)) =>
        (Raised /\ err.kind = "ValueError" /\ ret = NoRet)

\* a call with the invalid fraction in second place, rejected for it
C12_Witness ==
    /\ Ended("crash_scenario") /\ Len(args.crashes) = 2
    /\ args.crashes[1] < 0 /\ args.crashes[2] >= 0
    /\ err = ErrCrash

\* the grid (or one of the two axes) of the call is empty
EmptyGridGiven ==
    \/ args.fn = "crash_scenario" /\ args.crashes = << >>
    \/ args.fn = "spot_scenario" /\ args.spots = << >>
    \/ args.fn = "vol_scenario" /\ args.vols = << >>
    \/ args.fn = "time_scenario" /\ args.days_forward = << >>
    \/ args.fn = "spot_vol_surface" /\ (args.spots = << >> \/ args.vols = << >>)
    \/ args.fn = "spot_time_surface" /\ (args.spots = << >> \/ args.days_forward = << >>)
    \/ args.fn = "payoff_scenario" /\ args.config.spots = << >>

\* C14: every grid evaluator (spot_scenario, vol_scenario, time_scenario,
\* spot_vol_surface, spot_time_surface on either axis, crash_scenario,
\* payoff_scenario) fails with an error when given an empty grid.
C14_EmptyGridRejected ==
    (pc \in {"done", "raised"} /\ EmptyGridGiven) => (Raised /\ ret = NoRet)

\* what does hold: payoff_scenario rejects the empty grid before any pricing
C14_PayoffRejectsEmpty ==
    (Ended("payoff_scenario") /\ EmptyGridGiven) =>
        (Raised /\ err = ErrEmptySpots /\ ret = NoRet /\ n_price = 0 /\ n_greeks = 0)

C14_Witness == Ended("payoff_scenario") /\ EmptyGridGiven /\ err = ErrEmptySpots

\* the record crash_scenario owes for fraction c
CrashExpected(c) ==
    CrashRecord(c, MulFix(market.spot, SCALE + c),
                portfolio_price(positions, [market EXCEPT !.spot = MulFix(market.spot, SCALE + c)], today),
                portfolio_greeks(positions, [market EXCEPT !.spot = MulFix(market.spot, SCALE + c)], today))

\* C15: for every list of crash fractions that are all < 0, crash_scenario
\* returns one result per fraction, in input order, with crash_pct = c,
\* spot = market.spot * (1 + c), and the value and Greeks of the portfolio at
\* the shocked spot with every other market input unchanged.
C15_OneResultPerFraction ==
    (Ended("crash_scenario") /\ AllNegative(args.crashes)) =>
        /\ pc = "done"
        /\ Len(ret.value) = Len(args.crashes)
        /\ \A i \in 1..Len(args.crashes) : ret.value[i] = CrashExpected(args.crashes[i])

\* what does hold: the results that are returned are the ones described
C15_ResultsWhenReturned ==
    (Ended("crash_scenario") /\ pc = "done") =>
        /\ AllNegative(args.crashes)
        /\ Len(ret.value) = Len(args.crashes)
        /\ \A i \in 1..Len(args.crashes) : ret.value[i] = CrashExpected(args.crashes[i])

C15_Witness ==
    /\ Ended("crash_scenario") /\ pc = "done"
    /\ Len(args.crashes) = 2 /\ args.crashes[1] < args.crashes[2]
    /\ Len(positions) = 2 /\ market.volatility > 0 /\ today = 0
    /\ ret.value[1].value # ret.value[2].value

\* the position's expiry is on or before the valuation date t
ExpiredAt(pos, t) == pos.contract.expiry <= t

\* the price the closed-form model gives an unexpired contract
LivePrice(c, m, t) ==
    IF m.volatility <= 0 THEN PriceZeroVol(c, m, YearFrac(c, t))
    ELSE PriceClosedForm(c, m, YearFrac(c, t))

LiveGreeks(c, m, t) ==
    IF m.volatility <= 0 THEN GreeksZeroVol(c, m, YearFrac(c, t))
    ELSE GreeksClosedForm(c, m, YearFrac(c, t))

\* what one position owes to the portfolio value at date t
OwedValue(pos, m, t) ==
    IF ExpiredAt(pos, t) THEN MulFix(pos.quantity, PriceIntrinsic(pos.contract, m))
    ELSE MulFix(pos.quantity, LivePrice(pos.contract, m, t))

\* what one position owes to gamma, vega, theta or rho at date t
OwedGreek(pos, m, t, k) ==
    IF ExpiredAt(pos, t) THEN 0
    ELSE ScaledGreeks[pos.quantity, LiveGreeks(pos.contract, m, t)][k]

RECURSIVE SumOwedValue(_, _, _)
SumOwedValue(ps, m, t) ==
    IF ps = << >> THEN 0
    ELSE OwedValue(Head(ps), m, t) + SumOwedValue(Tail(ps), m, t)

RECURSIVE SumOwedGreek(_, _, _, _)
SumOwedGreek(ps, m, t, k) ==
    IF ps = << >> THEN 0
    ELSE OwedGreek(Head(ps), m, t, k) + SumOwedGreek(Tail(ps), m, t, k)

SpotMoved(m, s) == [m EXCEPT !.spot = s]

TimeScenarioCollapses ==
    (Ended("time_scenario") /\ pc = "done") =>
        \A i \in 1..Len(args.days_forward) :
             /\ ret.value[i].value =
                  SumOwedValue(positions, market, today + args.days_forward[i])
             /\ \A k \in {"gamma", "vega", "theta", "rho"} :
                  ret.value[i][k] =
                    SumOwedGreek(positions, market, today + args.days_forward[i], k)

SpotTimeSurfaceCollapses ==
    (Ended("spot_time_surface") /\ pc = "done") =>
        \A i \in 1..Len(args.spots), j \in 1..Len(args.days_forward) :
            /\ ret.value.value[i][j] =
                 SumOwedValue(positions, SpotMoved(market, args.spots[i]),
                              today + args.days_forward[j])
            /\ \A k \in {"gamma", "theta"} :
                 ret.value[k][i][j] =
                   SumOwedGreek(positions, SpotMoved(market, args.spots[i]),
                                today + args.days_forward[j], k)

\* time_scenario raises only in math.log, over a market whose spot is <= 0
\* and at a date where a position has not expired; an expired position
\* never makes it raise
TimeScenarioRaisesOnlyOnSpot ==
    Ended("time_scenario") =>
        /\ market.spot > 0 => pc = "done"
        /\ Raised =>
             /\ err = ErrMathDomain
             /\ market.spot <= 0 /\ market.volatility > 0
             /\ \E p \in 1..Len(positions) : ~ExpiredAt(positions[p], today + args.days_forward[iter + 1])
        /\ (\A i \in 1..Len(args.days_forward), p \in 1..Len(positions) :
                ExpiredAt(positions[p], today + args.days_forward[i])) => pc = "done"

\* spot_time_surface raises only in math.log, at a cell with a spot <= 0 and
\* a position that has not expired there
SpotTimeSurfaceRaisesOnlyOnSpot ==
    (Ended("spot_time_surface") /\ Raised) =>
        /\ err = ErrMathDomain
        /\ args.spots[CellRow(iter, Len(args.days_forward))] <= 0
        /\ \E p \in 1..Len(positions) : ~ExpiredAt(positions[p], FutureDate)

\* C16: time_scenario and spot_time_surface never raise because a position
\* has expired: a position whose expiry is on or before the shifted valuation
\* date contributes quantity x intrinsic value and zero gamma, vega, theta
\* and rho, while unexpired positions are still priced by the closed-form
\* model.
C16_ExpiredPositionsCollapse ==
    /\ TimeScenarioCollapses
    /\ TimeScenarioRaisesOnlyOnSpot
    /\ SpotTimeSurfaceCollapses
    /\ SpotTimeSurfaceRaisesOnlyOnSpot

\* time_scenario returned a record for a date at which the in-the-money put
\* has expired and the call has not
C16_Witness ==
    /\ Ended("time_scenario") /\ pc = "done"
    /\ Len(positions) = 2 /\ market.volatility > 0
    /\ \E i \in 1..Len(args.days_forward) :
         /\ ExpiredAt(positions[2], today + args.days_forward[i])
         /\ ~ExpiredAt(positions[1], today + args.days_forward[i])
         /\ PriceIntrinsic(positions[2].contract, market) > 0
         /\ ret.value[i].gamma # 0

\* the portfolio metrics at one grid point
MetricAt(m, t, k) ==
    IF k = "value" THEN portfolio_price(positions, m, t)
    ELSE portfolio_greeks(positions, m, t)[k]

AllMetrics == {"value", "delta", "gamma", "vega", "theta", "rho"}

SpotScenarioAligned ==
    (Ended("spot_scenario") /\ pc = "done") =>
        /\ Len(ret.value) = Len(args.spots)
        /\ \A i \in 1..Len(args.spots) :
             /\ ret.value[i].spot = args.spots[i]
             /\ \A k \in AllMetrics :
                  ret.value[i][k] = MetricAt(SpotMoved(market, args.spots[i]), today, k)

VolScenarioAligned ==
    (Ended("vol_scenario") /\ pc = "done") =>
        /\ Len(ret.value) = Len(args.vols)
        /\ \A i \in 1..Len(args.vols) :
             /\ ret.value[i].volatility = args.vols[i]
             /\ \A k \in AllMetrics :
                  ret.value[i][k] = MetricAt(MarketWith(market, args.vols[i]), today, k)

TimeScenarioAligned ==
    (Ended("time_scenario") /\ pc = "done") =>
        /\ Len(ret.value) = Len(args.days_forward)
        /\ \A i \in 1..Len(args.days_forward) :
             /\ ret.value[i].days_forward = args.days_forward[i]
             /\ ret.value[i].date = today + args.days_forward[i]
             /\ \A k \in AllMetrics :
                  ret.value[i][k] = MetricAt(market, today + args.days_forward[i], k)

SpotVolSurfaceAligned ==
    (Ended("spot_vol_surface") /\ pc = "done") =>
        /\ ret.value.spots = args.spots
        /\ ret.value.vols = args.vols
        /\ \A k \in {"value", "delta", "gamma", "vega"} :
             /\ Len(ret.value[k]) = Len(args.spots)
             /\ \A i \in 1..Len(args.spots) :
                  /\ Len(ret.value[k][i]) = Len(args.vols)
                  /\ \A j \in 1..Len(args.vols) :
                       ret.value[k][i][j] =
                         MetricAt(MarketWith(SpotMoved(market, args.spots[i]), args.vols[j]),
                                  today, k)

SpotTimeSurfaceAligned ==
    (Ended("spot_time_surface") /\ pc = "done") =>
        /\ ret.value.spots = args.spots
        /\ ret.value.days_forward = args.days_forward
        /\ \A k \in {"value", "delta", "gamma", "theta"} :
             /\ Len(ret.value[k]) = Len(args.spots)
             /\ \A i \in 1..Len(args.spots) :
                  /\ Len(ret.value[k][i]) = Len(args.days_forward)
                  /\ \A j \in 1..Len(args.days_forward) :
                       ret.value[k][i][j] =
                         MetricAt(SpotMoved(market, args.spots[i]),
                                  today + args.days_forward[j], k)

\* the two sweeps that leave the spot alone return whenever the market's
\* spot is positive
SweepsReturn ==
    (market.spot > 0 /\ (Ended("vol_scenario") \/ Ended("time_scenario"))) => pc = "done"

\* C17: the deterministic evaluators keep the caller's axes verbatim and
\* index-aligned: spot_scenario, vol_scenario and time_scenario return one
\* record per swept value in input order (nothing sorted, no duplicate
\* removed) with the swept value echoed; the two surfaces return the axes as
\* given and row-major grids whose entry [i][j] is the portfolio metric at
\* (spots[i], second_axis[j]).
C17_AxesVerbatimAndAligned ==
    /\ SpotScenarioAligned
    /\ VolScenarioAligned
    /\ TimeScenarioAligned
    /\ SweepsReturn
    /\ SpotVolSurfaceAligned
    /\ SpotTimeSurfaceAligned

\* a 2 x 2 surface over unsorted axes whose four values all differ
C17_Witness ==
    /\ Ended("spot_vol_surface") /\ pc = "done"
    /\ Len(args.spots) = 2 /\ args.spots[1] > args.spots[2]
    /\ Len(args.vols) = 2 /\ args.vols[1] > args.vols[2]
    /\ Cardinality({ret.value.value[i][j] : i \in 1..2, j \in 1..2}) = 4

\* C18: for every valid input (center > 0, pct_range > 0, n >= 2, any
\* min_spot) make_spot_grid returns n evenly spaced points in increasing
\* order, the first max(min_spot, center * (1 - pct_range)) and the last
\* center * (1 + pct_range) (the last to within the rounding of the step).
C18_GridIncreasingOverSpan ==
    (Ended("make_spot_grid") /\ args.spot_center > 0 /\ args.pct_range > 0 /\ args.n >= 2) =>
        /\ pc = "done"
        /\ Len(ret.value) = args.n
        /\ \A i \in 1..(args.n - 1) : ret.value[i] < ret.value[i + 1]
        /\ \A i \in 2..(args.n - 1) :
             ret.value[i + 1] - ret.value[i] = ret.value[i] - ret.value[i - 1]
        /\ ret.value[1] = Max(args.min_spot, MulFix(args.spot_center, SCALE - args.pct_range))
        /\ Abs(ret.value[args.n] - MulFix(args.spot_center, SCALE + args.pct_range)) < args.n

\* what does hold: the same without the order, which is increasing only
\* when min_spot is below center * (1 + pct_range)
C18_GridOverSpan ==
    (Ended("make_spot_grid") /\ args.spot_center > 0 /\ args.pct_range > 0 /\ args.n >= 2) =>
        /\ pc = "done"
        /\ Len(ret.value) = args.n
        /\ \A i \in 2..(args.n - 1) :
             ret.value[i + 1] - ret.value[i] = ret.value[i] - ret.value[i - 1]
        /\ ret.value[1] = Max(args.min_spot, MulFix(args.spot_center, SCALE - args.pct_range))
        /\ Abs(ret.value[args.n] - MulFix(args.spot_center, SCALE + args.pct_range)) < args.n
        /\ (args.min_spot + args.n <= MulFix(args.spot_center, SCALE + args.pct_range)) =>
              \A i \in 1..(args.n - 1) : ret.value[i] < ret.value[i + 1]

C18_Witness ==
    /\ Ended("make_spot_grid") /\ pc = "done"
    /\ args.n = MaxGridPoints
    /\ ret.value[1] = args.min_spot /\ ret.value[1] < ret.value[2]

IsNonDecreasing(s) == \A i \in 1..(Len(s) - 1) : s[i] <= s[i + 1]

\* how often x stands in s
Count(s, x) == Cardinality({i \in 1..Len(s) : s[i] = x})

\* s and t hold the same values, each as often
SameValues(s, t) ==
    /\ Len(s) = Len(t)
    /\ \A i \in 1..Len(s) : Count(s, s[i]) = Count(t, s[i])

Has(r, key) == key \in DOMAIN r

PayoffCurvesAligned ==
    (Ended("payoff_scenario") /\ pc = "done") =>
        LET out == ret.value
            cfg == args.config
        IN  /\ IsNonDecreasing(out.spots)
            /\ SameValues(out.spots, cfg.spots)
            /\ Len(out.payoff_at_expiry) = Len(out.spots)
            /\ \A i \in 1..Len(out.spots) :
                 out.payoff_at_expiry[i] =
                   portfolio_price(positions, SpotMoved(market, out.spots[i]), cfg.expiry_date)
            /\ Has(out, "value_today") <=> cfg.include_value_today
            /\ Has(out, "value_today") =>
                 /\ Len(out.value_today) = Len(out.spots)
                 /\ \A i \in 1..Len(out.spots) :
                      out.value_today[i] =
                        portfolio_price(positions, SpotMoved(market, out.spots[i]), today)
            /\ Has(out, "greeks_today") <=> cfg.include_greeks_today
            /\ Has(out, "greeks_today") =>
                 /\ DOMAIN out.greeks_today = GreekNames
                 /\ \A k \in GreekNames :
                      /\ Len(out.greeks_today[k]) = Len(out.spots)
                      /\ \A i \in 1..Len(out.spots) :
                           out.greeks_today[k][i] =
                             portfolio_greeks(positions, SpotMoved(market, out.spots[i]), today)[k]

\* no step of a payoff_scenario call writes to the config it was passed
ConfigUntouched == (args.fn = "payoff_scenario") => (args' = args)

\* C19: payoff_scenario returns the configured grid sorted in non-decreasing
\* order, duplicates kept; payoff_at_expiry, value_today and the five
\* greeks_today lists are as long as spots with their i-th entry evaluated at
\* spots[i]; value_today is present exactly under include_value_today and
\* greeks_today exactly under include_greeks_today; the caller's config.spots
\* keeps its original order.
C19_SortedGridAlignedCurves == [](PayoffCurvesAligned) /\ [][ConfigUntouched]_vars

\* a call with both flags set over an unsorted grid with a duplicate
C19_Witness ==
    /\ Ended("payoff_scenario") /\ pc = "done"
    /\ args.config.include_value_today /\ args.config.include_greeks_today
    /\ Len(args.config.spots) = 3 /\ ~IsNonDecreasing(args.config.spots)
    /\ ret.value.spots[2] = ret.value.spots[3]
    /\ Len(positions) = 2
    /\ ret.value.payoff_at_expiry[1] # ret.value.payoff_at_expiry[2]

\* the floor PayoffConfig's invariant speaks of: make_spot_grid's min_spot
SpotFloor == DefaultMinSpot

\* C20: every grid that payoff_scenario evaluates is non-empty with every
\* value >= a small positive floor; a config whose grid is empty or holds a
\* value below the floor (zero and negative spots included) is never priced.
C20_GridAboveFloor ==
    (args.fn = "payoff_scenario" /\ n_price + n_greeks > 0) =>
        /\ args.config.spots # << >>
        /\ \A i \in 1..Len(args.config.spots) : args.config.spots[i] >= SpotFloor

\* what does hold: the empty grid is never priced
C20_EmptyGridNeverPriced ==
    (args.fn = "payoff_scenario" /\ n_price + n_greeks > 0) => args.config.spots # << >>

C20_Witness ==
    /\ Ended("payoff_scenario") /\ pc = "done" /\ n_price > 0
    /\ \A i \in 1..Len(args.config.spots) : args.config.spots[i] >= SpotFloor

\* the errors by which an evaluator rejects its input
ValidationErrors ==
    {ErrCrash, ErrEmptySpots, ErrHorizon, ErrSims, ErrVolatility,
     ErrSpotCenter, ErrPctRange, ErrGridPoints}

\* C13: an evaluator that rejects its input never partially executes:
\* crash_scenario, given a list whose later element is invalid, fails before
\* pricing any position, the valid elements before it included; and
\* monte_carlo_scenario performs no draw and no valuation before failing.
C13_NoPartialExecution ==
    (Raised /\ err \in ValidationErrors) =>
        (n_price = 0 /\ n_greeks = 0 /\ rng.draws = 0 /\ results = << >>)

\* what does hold: monte_carlo_scenario and payoff_scenario reject before
\* any draw and any valuation, and crash_scenario has priced exactly the
\* fractions that stand before the rejected one
C13_WorkBeforeRejection ==
    (Raised /\ err \in ValidationErrors) =>
        /\ rng.draws = 0 /\ rng.seeds = 0
        /\ IF args.fn = "crash_scenario"
           THEN n_price = iter /\ n_greeks = iter /\ Len(results) = iter
                /\ args.crashes[iter + 1] >= 0
                /\ \A i \in 1..iter : args.crashes[i] < 0
           ELSE n_price = 0 /\ n_greeks = 0 /\ results = << >>

\* crash_scenario rejected the second fraction after pricing the first
C13_Witness ==
    /\ Ended("crash_scenario") /\ err = ErrCrash
    /\ iter = 1 /\ n_price = 1 /\ n_greeks = 1 /\ Len(positions) = 2


\* ------------------------------------------------------------------------
\* Properties of monte_carlo_scenario
\* ------------------------------------------------------------------------
\* the volatility the call is to use, as the documentation gives it: the
\* override when one is given, zero included, otherwise the market's
VolAsked == IF args.vol = None THEN market.volatility ELSE args.vol[1]

MCInvalidInput == args.horizon_days <= 0 \/ args.n_sims <= 0 \/ VolAsked <= 0

\* C21: monte_carlo_scenario fails with a validation error when
\* horizon_days <= 0, when n_sims <= 0 or when the resolved volatility (the
\* override when given, even an override of 0, otherwise market.volatility)
\* is <= 0, and it fails before the generator is seeded, before any draw and
\* before any valuation; a drift override of 0.0 is used as given.
C21_ValidatesBeforeSeeding ==
    Ended("monte_carlo_scenario") =>
        /\ MCInvalidInput =>
             /\ Raised /\ ret = NoRet
             /\ err \in {ErrHorizon, ErrSims, ErrVolatility}
             /\ rng.seeds = 0 /\ rng.draws = 0
             /\ n_price = 0 /\ n_greeks = 0 /\ results = << >>
        /\ ~MCInvalidInput => (pc = "done" \/ (err = ErrMathDomain /\ market.spot <= 0))
        /\ (pc = "done" /\ args.drift # None) =>
             /\ ret.value.assumptions.drift = args.drift[1]
             /\ \A i \in 1..args.n_sims :
                  results.ST[i] = TerminalSpot[market.spot, args.drift[1], VolAsked,
                                               HorizonYears(args.horizon_days),
                                               results.Z[i]]

\* a seeded call with a volatility override of 0 over a market whose own
\* volatility is positive, rejected for its volatility
C21_Witness ==
    /\ Ended("monte_carlo_scenario")
    /\ args.vol = Some(0) /\ market.volatility > 0
    /\ args.horizon_days > 0 /\ args.n_sims > 0 /\ args.seed # None
    /\ err = ErrVolatility /\ rng.seeds = 0

\* a call with a drift override of 0.0 that returned
C21_DriftWitness ==
    /\ Ended("monte_carlo_scenario") /\ pc = "done"
    /\ args.drift = Some(0) /\ market.rate # market.dividend_yield

\* the entry e of the log is a call with an explicit seed that returned
SeededReturn(e) == e.args.seed # None /\ e.ret # NoRet
UnseededReturn(e) == e.args.seed = None /\ e.ret # NoRet

\* the outputs a call reports
Outputs(e) ==
    <<e.ret.value.summary, e.ret.value.percentiles, e.ret.value.tail_risk>>

\* C22: two calls made one after the other with the same explicit seed and
\* identical inputs return identical summary, percentile and tail-risk
\* outputs, whatever calls (with another seed, or unseeded) ran before the
\* first or between the two.
C22_SameSeedSameOutputs ==
    \A i \in 1..Len(log) : \A j \in 1..Len(log) :
        (SeededReturn(log[i]) /\ log[j].args = log[i].args) =>
            (SeededReturn(log[j]) /\ Outputs(log[j]) = Outputs(log[i]))

\* three calls in a row: the first and the third alike, and between them a
\* call that has drawn other numbers
C22_Witness ==
    /\ Len(log) = 3
    /\ SeededReturn(log[1]) /\ log[3].args = log[1].args /\ log[3].ret # NoRet
    /\ log[2].ret # NoRet /\ log[2].args.seed # log[1].args.seed
    /\ log[2].Z # log[1].Z

\* what the call of entry e returns when it runs alone with its seed
AloneResult(e) ==
    MCResultOf(e.args, TerminalValues(e.args, Draws(SeedState(e.args.seed[1]), e.args.n_sims)))

\* C23: when two calls with explicit seeds run at once and their steps
\* interleave, each still returns what it returns when run alone with its
\* seed: no interleaving lets one call change the draws of the other.
C23_EachCallAsIfAlone ==
    \A k \in 1..Len(log) :
        SeededReturn(log[k]) => log[k].ret.value = AloneResult(log[k])

\* two seeded calls, each between its seeding and its draw
C23_Witness ==
    /\ calls[1].pc = "mc_draw" /\ calls[2].pc = "mc_draw"
    /\ calls[1].args.seed # None /\ calls[2].args.seed # None
    /\ calls[1].args.seed # calls[2].args.seed

\* C24: a call with an explicit seed leaves the process-wide generator as it
\* found it: a call without a seed that comes after it draws what it would
\* have drawn had the seeded call not run, whatever the seed.
C24_SeededCallLeavesGenerator ==
    /\ \A w \in Threads :
         (calls[w].pc = "done" /\ calls[w].args.seed # None) => rng.state = calls[w].found
    /\ \A k \in 2..Len(log) :
         (SeededReturn(log[k - 1]) /\ UnseededReturn(log[k])) =>
             log[k].Z = Draws(log[k - 1].found, log[k].args.n_sims)

\* what does hold: a seeded call leaves the generator where its seed and its
\* own draws put it, and the next unseeded call draws on from there
C24_GeneratorLeftBySeed ==
    /\ \A w \in Threads :
         (calls[w].pc = "done" /\ calls[w].args.seed # None) =>
             rng.state = StateAfter[SeedState(calls[w].args.seed[1]), calls[w].args.n_sims]
    /\ \A k \in 2..Len(log) :
         (SeededReturn(log[k - 1]) /\ UnseededReturn(log[k])) =>
             log[k].Z = Draws(StateAfter[SeedState(log[k - 1].args.seed[1]),
                                         log[k - 1].args.n_sims],
                              log[k].args.n_sims)

\* a seeded call that returned, and after it a call without a seed
C24_Witness ==
    /\ Len(log) >= 2
    /\ SeededReturn(log[1]) /\ UnseededReturn(log[2])

\* a call of monte_carlo_scenario that returned
MCReturned == args.fn = "monte_carlo_scenario" /\ pc = "done"

RECURSIVE NonDecreasing(_)
NonDecreasing(s) ==
    IF Len(s) < 2 THEN TRUE ELSE s[1] <= s[2] /\ NonDecreasing(Tail(s))

PercentilesByLevel(p) == <<p.p01, p.p05, p.p10, p.p25, p.p50, p.p75, p.p90, p.p95, p.p99>>

\* C25: for every successful call (any portfolio, any n_sims >= 1, one
\* included) the nine percentiles are non-decreasing in their level:
\* p01 <= p05 <= p10 <= p25 <= p50 <= p75 <= p90 <= p95 <= p99.
C25_PercentilesOrdered ==
    MCReturned => NonDecreasing(PercentilesByLevel(ret.value.percentiles))

\* a call over several paths whose values differ
C25_Witness ==
    /\ MCReturned /\ args.n_sims >= 2 /\ positions # << >>
    /\ ret.value.percentiles.p01 < ret.value.percentiles.p50
    /\ ret.value.percentiles.p50 < ret.value.percentiles.p99

\* the simulated values, sorted
SortedValues == Sorted(results.terminal_values)

\* the q-th percentile of the simulated values, by linear interpolation
\* between the order statistics around the rank (n - 1) * q / 100
InterpolatedAt(q) ==
    IF (((args.n_sims - 1) * q * SCALE) \div 100) \div SCALE + 1 >= args.n_sims
    THEN SortedValues[args.n_sims]
    ELSE SortedValues[(((args.n_sims - 1) * q * SCALE) \div 100) \div SCALE + 1]
         + MulFix((((args.n_sims - 1) * q * SCALE) \div 100) % SCALE,
                  SortedValues[(((args.n_sims - 1) * q * SCALE) \div 100) \div SCALE + 2]
                  - SortedValues[(((args.n_sims - 1) * q * SCALE) \div 100) \div SCALE + 1])

\* the simulated values at or below a bound
TailOf(bound) ==
    SelectSeq(results.terminal_values, LAMBDA v : v <= bound)

\* C26: for every successful call var_95 is the 5th and var_99 the 1st
\* percentile of the simulated values, each CVaR is the mean of the values
\* at or below the matching VaR, that set is never empty (each CVaR is a
\* defined number), and cvar_95 <= var_95 and cvar_99 <= var_99, compared as
\* the doubles they are.
C26_TailRisk ==
    MCReturned =>
        /\ ret.value.tail_risk.var_95 = InterpolatedAt(5)
        /\ ret.value.tail_risk.var_99 = InterpolatedAt(1)
        /\ ret.value.tail_risk.var_95 = ret.value.percentiles.p05
        /\ ret.value.tail_risk.var_99 = ret.value.percentiles.p01
        /\ TailOf(ret.value.tail_risk.var_95) # << >>
        /\ TailOf(ret.value.tail_risk.var_99) # << >>
        /\ ret.value.tail_risk.cvar_95 # NaN
        /\ ret.value.tail_risk.cvar_99 # NaN
        /\ ret.value.tail_risk.cvar_95 = Mean(TailOf(ret.value.tail_risk.var_95))
        /\ ret.value.tail_risk.cvar_99 = Mean(TailOf(ret.value.tail_risk.var_99))
        /\ LeB(ret.value.tail_risk.cvar_95, DoubleOf(ret.value.tail_risk.var_95))
        /\ LeB(ret.value.tail_risk.cvar_99, DoubleOf(ret.value.tail_risk.var_99))

\* the double next above a positive double
NextAbove(x) == <<x[1], x[2], BigAdd(x[3], <<1>>)>>

\* a call over three paths of the call spread: every path is worth 85.4, the
\* VaR is 85.4, the tail is all three values, and their mean, the CVaR, is
\* the double next above 85.4
C26_Witness ==
    /\ MCReturned /\ args.n_sims = 3 /\ positions = CallSpread
    /\ results.terminal_values = <<85400000, 85400000, 85400000>>
    /\ ret.value.tail_risk.var_95 = 85400000
    /\ TailOf(ret.value.tail_risk.var_95) = results.terminal_values
    /\ ret.value.tail_risk.cvar_95 = NextAbove(DoubleOf(ret.value.tail_risk.var_95))
    /\ LtB(DoubleOf(ret.value.tail_risk.var_95), ret.value.tail_risk.cvar_95)
    /\ ret.value.tail_risk.cvar_99 = ret.value.tail_risk.cvar_95
    /\ ret.value.summary.mean = ret.value.tail_risk.cvar_95

\* every value of a sequence is its first one
AllEqual(s) == \A i \in 1..Len(s) : s[i] = s[1]

\* What holds of the tail risk: the VaRs are the two percentiles, each tail
\* is non-empty and each CVaR is the mean np.mean forms of it; the CVaR is
\* at or below the VaR unless every value of the tail is the VaR itself,
\* where the rounded mean of equal values may be the next double.
C26_TailRiskButForRounding ==
    MCReturned =>
        /\ ret.value.tail_risk.var_95 = ret.value.percentiles.p05
        /\ ret.value.tail_risk.var_99 = ret.value.percentiles.p01
        /\ TailOf(ret.value.tail_risk.var_95) # << >>
        /\ TailOf(ret.value.tail_risk.var_99) # << >>
        /\ ret.value.tail_risk.cvar_95 # NaN
        /\ ret.value.tail_risk.cvar_99 # NaN
        /\ \/ LeB(ret.value.tail_risk.cvar_95, DoubleOf(ret.value.tail_risk.var_95))
           \/ /\ AllEqual(TailOf(ret.value.tail_risk.var_95))
              /\ TailOf(ret.value.tail_risk.var_95)[1] = ret.value.tail_risk.var_95
        /\ \/ LeB(ret.value.tail_risk.cvar_99, DoubleOf(ret.value.tail_risk.var_99))
           \/ /\ AllEqual(TailOf(ret.value.tail_risk.var_99))
              /\ TailOf(ret.value.tail_risk.var_99)[1] = ret.value.tail_risk.var_99

\* ------------------------------------------------------------------------
\* Properties of the two phases of the solver
\* ------------------------------------------------------------------------
\* the model price at v is within the tolerance of the observed price
WithinTolerance(v) ==
    /\ ~PriceRaisesAt(v)
    /\ LtD(AbsD[SubD[ModelPrice(v), market_price]], tol)

\* the sigma the iteration in progress evaluates the price at
SigmaInHand == IF pc = "newton" THEN sigma ELSE Mid(low, high)

ReturnsNow == pc # "returned" /\ pc' = "returned"

\* a return hands back the sigma of the iteration, whose price it has just
\* evaluated and found within the tolerance
ReturnIsChecked ==
    ReturnsNow =>
        /\ pc \in {"newton", "bisect"}
        /\ iter < (IF pc = "newton" THEN max_iter ELSE BisectIters)
        /\ ret'.value = SigmaInHand
        /\ n_price' = n_price + 1
        /\ WithinTolerance(ret'.value)

\* C27: every value implied_vol returns, from either phase, is a sigma at
\* which the model price was evaluated in that same iteration and found
\* within the tolerance of the observed price; no sigma produced by a Newton
\* update or a bisection midpoint is returned without that check, and a call
\* that never meets the check ends in an error.
C27_ReturnsOnlyCheckedSigma ==
    /\ [][ReturnIsChecked]_vars
    /\ [](/\ (pc = "returned") => (WithinTolerance(ret.value) /\ err = NoErr)
          /\ (pc # "returned") => (ret = NoRet)
          /\ (~ENABLED NextSolver) => (pc \in {"returned", "raised"})
          /\ (pc = "raised") => (err.kind \in {"ImpliedVolError", "ValueError"}))

\* a sigma that Newton-Raphson reached by an update, and returned
C27_Witness ==
    /\ pc = "returned" /\ ~NewtonGaveUp
    /\ iter >= 1 /\ ret.value = sigma
    /\ sigma # MaxD[initial_guess, FromFix[MinGuess]]

EntersBisection == pc # "bisect" /\ pc' = "bisect"

\* vega at the current sigma is below 1e-8
VegaCase ==
    /\ iter < max_iter /\ ~WithinTolerance(sigma)
    /\ VegaTooSmall(ModelVega(sigma))
    /\ sigma' = sigma

\* the update has driven sigma to <= 0
SigmaCase ==
    /\ iter < max_iter /\ ~WithinTolerance(sigma)
    /\ ~VegaTooSmall(ModelVega(sigma))
    /\ sigma'[1] <= 0

\* max_iter steps have been taken
ExhaustedCase == iter = max_iter /\ n_greeks = max_iter /\ sigma' = sigma

\* C28: the bisection phase starts only after the Newton-Raphson phase has
\* ended without returning, in exactly three cases (vega below 1e-8, an
\* update to sigma <= 0, max_iter steps taken); in each iteration the
\* convergence test comes before the vega test; and bisection starts from
\* the bracket [1e-6, 5.0] whatever sigma Newton-Raphson had reached.
C28_FallbackOnlyFromNewton ==
    [][/\ EntersBisection =>
            /\ pc = "newton" /\ ret = NoRet
            /\ low' = FromFix[BisectLow] /\ high' = FromFix[BisectHigh] /\ iter' = 0
            /\ VegaCase \/ SigmaCase \/ ExhaustedCase
       /\ (pc = "newton" /\ iter < max_iter /\ WithinTolerance(sigma)) =>
            (pc' = "returned" /\ n_greeks' = n_greeks)]_vars

\* the bisection starts from the fixed bracket after an update to sigma <= 0
C28_Witness ==
    /\ pc = "bisect" /\ iter = 0 /\ sigma[1] <= 0
    /\ low = FromFix[BisectLow] /\ high = FromFix[BisectHigh]

\* the call has ended, by a return or by an error
Terminated == pc \in {"returned", "raised"}

\* C29: implied_vol always terminates: for every input it returns or fails
\* after at most max_iter Newton-Raphson iterations followed by at most 100
\* bisection iterations (at most max_iter + 100 model price evaluations); it
\* never goes back from bisection to Newton-Raphson and never retries.
C29_AlwaysTerminates ==
    /\ <>Terminated
    /\ [](/\ n_price <= max_iter + BisectIters
          /\ n_greeks <= max_iter
          /\ (pc = "newton") => (iter <= max_iter /\ n_price = iter)
          /\ (pc = "bisect") => (iter <= BisectIters /\ n_price <= max_iter + iter))
    /\ [][/\ ~Terminated
          /\ (pc = "bisect") => (pc' # "newton")
          /\ (pc = "newton" /\ pc' = "newton") => (iter' = iter + 1)
          /\ (pc = "bisect" /\ pc' = "bisect") => (iter' = iter + 1)]_vars

\* the longest call: every Newton-Raphson step taken, then every bisection
\* iteration, and the convergence error
C29_Witness ==
    /\ pc = "raised" /\ err = ErrNotConverged
    /\ max_iter = SmallMaxIter
    /\ n_price = max_iter + BisectIters

\* a bisection iteration that goes round the loop
Narrows == pc = "bisect" /\ pc' = "bisect"

\* exactly one bound is replaced by the midpoint: high when the price at the
\* midpoint is above the observed price, low otherwise
OneBoundReplaced ==
    IF LtD(market_price, ModelPrice(Mid(low, high)))
    THEN high' = Mid(low, high) /\ low' = low
    ELSE low' = Mid(low, high) /\ high' = high

\* 1e-11, above the rounding of a sum and a halving of numbers up to 10
MidRounding == <<1, -3, 10, 0, 0, 0>>

\* the new width is half the old one, to the rounding of the midpoint
WidthHalved ==
    LeD(AbsD[SubD[MulSmall[SubD[high', low'], 2], SubD[high, low]]], MidRounding)

\* 1e-6 <= v <= 5.0
InBracket(v) == LeD(FromFix[BisectLow], v) /\ LeD(v, FromFix[BisectHigh])

\* the sigma returned came from the Newton-Raphson phase
NewtonResult == pc = "returned" /\ ~NewtonGaveUp
BisectionResult == pc = "returned" /\ NewtonGaveUp

\* C30: throughout the bisection phase 1e-6 <= low < high <= 5.0; each
\* iteration replaces exactly one bound by the midpoint, so the width
\* halves; and every sigma returned is strictly positive, a bisection result
\* lying strictly inside (1e-6, 5.0).
C30_BracketHalves ==
    /\ [](/\ (pc = "bisect") => (InBracket(low) /\ LtD(low, high) /\ InBracket(high))
          /\ (pc = "returned") => (ret.value[1] > 0)
          /\ BisectionResult => (LtD(FromFix[BisectLow], ret.value) /\ LtD(ret.value, FromFix[BisectHigh])))
    /\ [][Narrows => (OneBoundReplaced /\ LtD(low', high') /\ WidthHalved)]_vars

\* C30 amended: 1e-6 <= low <= high <= 5.0 throughout; each iteration
\* replaces one bound by the midpoint, which lies in [low, high], so the
\* bracket never widens, and the width halves as long as the midpoint is
\* strictly between the bounds (once the bounds are a rounding step apart
\* the midpoint is one of them); every sigma returned is strictly positive,
\* a bisection result lying in [1e-6, 5.0].
C30_BracketNeverWidens ==
    /\ [](/\ (pc = "bisect") => (InBracket(low) /\ LeD(low, high) /\ InBracket(high))
          /\ (pc = "returned") => (ret.value[1] > 0)
          /\ NewtonResult => (ret.value = sigma /\ sigma[1] > 0)
          /\ BisectionResult => InBracket(ret.value))
    /\ [][Narrows =>
            /\ OneBoundReplaced
            /\ LeD(low, Mid(low, high)) /\ LeD(Mid(low, high), high)
            /\ LeD(low, low') /\ LeD(high', high)
            /\ (LtD(low, Mid(low, high)) /\ LtD(Mid(low, high), high)) =>
                 (LtD(low', high') /\ WidthHalved)]_vars

\* the bracket has closed: both bounds have met at one value
C30_Witness ==
    /\ pc = "bisect" /\ iter > 0 /\ low = high
====
